---- MODULE Spec2Model ----
(***************************************************************************)
(* A model of the retrieval-augmented chat pipeline of the repository:     *)
(*   - the chunker: the client GeminiChunker, the chunk-content edge       *)
(*     function and the two fallbackChunking algorithms;                   *)
(*   - the chat-query edge function: retrieval, the sufficiency rule, the  *)
(*     gap filter, the classifier and the gap record insert;               *)
(*   - the SQL classification functions of the knowledge gap migration;    *)
(*   - the similarity_search SQL function and EmbeddingService: search,    *)
(*     store and delete by source, serialized per source or not;           *)
(*   - the generate-embedding edge function with generateEmbedding and     *)
(*     generateEmbeddings of the client;                                   *)
(*   - the hooks: processContent of useSemanticProcessing and the chat     *)
(*     list of useProjectChat;                                             *)
(*   - generateResponse of chat-query: the turn list sent to the oracle.   *)
(* Strings are sequences of one-character strings, so that split, trim,    *)
(* join and the regular expressions of the code are computed, not assumed. *)
(***************************************************************************)
EXTENDS Integers, Sequences, FiniteSets, TLC

(***************************************************************************)
(* Bounds of the model.                                                    *)
(***************************************************************************)
\* longest enumerated content, in characters
MaxLen == 5
\* largest maxWordsPerChunk a caller passes
MaxWords == 3
\* longest chunk list the segmentation oracle answers with
MaxOracleChunks == 2

(***************************************************************************)
(* The state: a chunkContent call, the chat-query edge function with the   *)
(* two tables it writes, a classification test SELECT, a searchSimilar     *)
(* call of the client, the embeddings table with the store and delete      *)
(* calls of the client, the embedding calls, a processContent call, the    *)
(* chat hook and a generateResponse call.                                  *)
(***************************************************************************)
VARIABLES
  cpc,               \* where the chunkContent call is: idle, sent, responded, done
  content,           \* chunkContent: content
  maxWordsPerChunk,  \* chunkContent: maxWordsPerChunk
  httpResponse,      \* the response of chunk-content on its way to the client
  chunkResult,       \* what chunkContent returned
  chunkVia,          \* which path produced chunkResult
  served             \* what the edge function met while it handled the request

chunkVars == <<cpc, content, maxWordsPerChunk, httpResponse, chunkResult, chunkVia, served>>

VARIABLES
  hpc,                  \* the step the handler is at
  requestsDone,         \* requests answered so far
  query,                \* the query of the request
  projectInfo,          \* getProjectInfo's row
  similarContent,       \* searchSimilarContent's result
  hasRelevantContent,   \* hasRelevantContent
  response,             \* generateResponse's text
  knowledgeGapType,     \* knowledgeGapType
  knowledgeGapCreated,  \* knowledgeGapCreated
  chatResponse,         \* the HTTP response of the request
  issues,               \* the issues table
  inquiries,            \* the inquiries table
  classifierOutcome,    \* what isQuestionAnIssue met, "none" if it was not called
  insertOutcome,        \* how the insert ended, "none" if none was made
  issuesAtStart,        \* rows of the issues table when the request arrived
  inquiriesAtStart      \* rows of the inquiries table when the request arrived

chatVars ==
  <<hpc, requestsDone, query, projectInfo, similarContent, hasRelevantContent, response,
    knowledgeGapType, knowledgeGapCreated, chatResponse, issues, inquiries,
    classifierOutcome, insertOutcome, issuesAtStart, inquiriesAtStart>>

VARIABLES
  spc,      \* the classification test SELECT: idle, done
  sqlText,  \* the text the SELECT is about
  sqlRow    \* the row of the SELECT: is_issue, is_substantial, is_response

sqlVars == <<spc, sqlText, sqlRow>>

VARIABLES
  qpc,            \* the searchSimilar call: idle, done
  searchCall,     \* its arguments, and the similarities the index computes
  rpcData,        \* the data of the similarity_search rpc
  searchResults,  \* what searchSimilar returned
  searchOutcome   \* none, returned, thrown

searchVars == <<qpc, searchCall, rpcData, searchResults, searchOutcome>>

VARIABLES
  wpc,               \* storeChunkEmbeddings: idle, storing
  embeddings,        \* the embeddings table of the signed-in user, in insertion order
  nextId,            \* the id the next inserted row gets
  callNo,            \* number of storeChunkEmbeddings calls made
  storeCall,         \* the arguments of the call
  storeK,            \* chunks of the call embedded and inserted so far
  storeResults,      \* results
  storeOutcome,      \* none, running, returned, thrown
  storeValue,        \* the promise of the call: pending, fulfilled or rejected
  storeUndisturbed,  \* no delete for the source of the call since it began
  deleteCall,        \* the arguments of the last deleteEmbeddingsBySource call
  deleteOutcome,     \* none, ok, thrown
  deleteDb,          \* what the database answered to its delete: none, ok, error
  embeddingsBefore,  \* the table when that call was made
  deleteRepeat,      \* successful calls with these arguments in a row, no insert between
  lastOp             \* the operation that made the last step: none, store, delete

storeVars ==
  <<wpc, embeddings, nextId, callNo, storeCall, storeK, storeResults, storeOutcome,
    storeValue, storeUndisturbed, deleteCall, deleteOutcome, deleteDb, embeddingsBefore,
    deleteRepeat, lastOp>>

VARIABLES
  batchTexts,    \* generateEmbeddings: texts
  embedCalls,    \* the promises of the generateEmbedding calls, by position
  modelAnswers,  \* what the model call behind each of them did
  settleOrder,   \* the positions in the order their calls settled
  batchPromise,  \* the promise of the generateEmbeddings call
  batchCalled    \* whether generateEmbeddings was ever called

embedVars == <<batchTexts, embedCalls, modelAnswers, settleOrder, batchPromise, batchCalled>>

VARIABLES
  ppc,              \* processContent: idle, chunking, storing
  state,            \* the ProcessingState of the hook
  processCall,      \* the source of the call and the user of useAuth
  processRuns,      \* processContent calls made
  processChunks,    \* chunks.length of the call, 0 before chunkContent returns
  processPromise,   \* the promise of the call
  processedBefore   \* the sources that earlier calls have processed to the end

processVars ==
  <<ppc, state, processCall, processRuns, processChunks, processPromise, processedBefore>>

VARIABLES
  messages,        \* useProjectChat: messages
  isLoading,       \* isLoading
  error,           \* error
  inFlight,        \* the sendMessage calls that await their request
  sendCalls,       \* sendMessage calls made
  sentHistory,     \* chatHistory of the request sent last
  sentQuery,       \* query of the request sent last
  clearedInFlight  \* the calls that were awaiting when clearMessages ran

hookVars ==
  <<messages, isLoading, error, inFlight, sendCalls, sentHistory, sentQuery, clearedInFlight>>

VARIABLES
  gpc,        \* generateResponse: idle, sent, done
  genCall,    \* its query, context and chatHistory
  contents,   \* the turn list it posts
  genPromise  \* the promise of the call

generateVars == <<gpc, genCall, contents, genPromise>>

vars ==
  <<chunkVars, chatVars, sqlVars, searchVars, storeVars, embedVars, processVars,
    hookVars, generateVars>>

\* what a step of one component leaves alone
outsideChunk ==
  <<chatVars, sqlVars, searchVars, storeVars, embedVars, processVars, hookVars,
    generateVars>>

outsideChat ==
  <<chunkVars, sqlVars, searchVars, storeVars, embedVars, processVars, hookVars,
    generateVars>>

outsideSql ==
  <<chunkVars, chatVars, searchVars, storeVars, embedVars, processVars, hookVars,
    generateVars>>

outsideSearch ==
  <<chunkVars, chatVars, sqlVars, storeVars, embedVars, processVars, hookVars,
    generateVars>>

outsideStore ==
  <<chunkVars, chatVars, sqlVars, searchVars, embedVars, processVars, hookVars,
    generateVars>>

outsideEmbed ==
  <<chunkVars, chatVars, sqlVars, searchVars, storeVars, processVars, hookVars,
    generateVars>>

\* processContent awaits storeChunkEmbeddings, so its steps say themselves
\* what they do to the store
outsideProcess ==
  <<chunkVars, chatVars, sqlVars, searchVars, embedVars, hookVars, generateVars>>

outsideHook ==
  <<chunkVars, chatVars, sqlVars, searchVars, storeVars, embedVars, processVars,
    generateVars>>

outsideGenerate ==
  <<chunkVars, chatVars, sqlVars, searchVars, storeVars, embedVars, processVars,
    hookVars>>

(***************************************************************************)
(* Characters and strings.                                                 *)
(***************************************************************************)
\* \s of the regular expressions
IsSpace(c) == c \in {" ", "\n", "\t"}

\* [.!?] of the sentence boundary regular expression
IsPunct(c) == c \in {".", "!", "?"}

\* the first index >= i of s that holds no whitespace, Len(s)+1 if none
RECURSIVE SkipSpace(_, _)
SkipSpace(s, i) ==
  IF i > Len(s) \/ ~IsSpace(s[i]) THEN i ELSE SkipSpace(s, i + 1)

\* String.prototype.split(/\s+/): cut at every maximal run of whitespace;
\* leading and trailing runs leave an empty string, "" gives [""]
RECURSIVE SplitWordsFrom(_, _, _, _)
SplitWordsFrom(s, i, cur, acc) ==
  IF i > Len(s) THEN Append(acc, cur)
  ELSE IF IsSpace(s[i])
       THEN SplitWordsFrom(s, SkipSpace(s, i), <<>>, Append(acc, cur))
       ELSE SplitWordsFrom(s, i + 1, Append(cur, s[i]), acc)

SplitWords(s) == SplitWordsFrom(s, 1, <<>>, <<>>)

\* String.prototype.split(/(?<=[.!?])\s+/): cut at a run of whitespace only
\* when the character before the run is '.', '!' or '?'
RECURSIVE SplitSentencesFrom(_, _, _, _)
SplitSentencesFrom(s, i, cur, acc) ==
  IF i > Len(s) THEN Append(acc, cur)
  ELSE IF IsSpace(s[i]) /\ i > 1 /\ IsPunct(s[i - 1])
       THEN SplitSentencesFrom(s, SkipSpace(s, i), <<>>, Append(acc, cur))
       ELSE SplitSentencesFrom(s, i + 1, Append(cur, s[i]), acc)

SplitSentences(s) == SplitSentencesFrom(s, 1, <<>>, <<>>)

\* Array.prototype.join(' ')
RECURSIVE JoinSpace(_)
JoinSpace(parts) ==
  IF Len(parts) = 0 THEN <<>>
  ELSE IF Len(parts) = 1 THEN parts[1]
  ELSE parts[1] \o <<" ">> \o JoinSpace(Tail(parts))

\* Array.prototype.slice(i, i + n) on a 0-based index i
Slice(xs, i, n) ==
  LET last == IF i + n < Len(xs) THEN i + n ELSE Len(xs)
  IN  IF i >= Len(xs) THEN <<>> ELSE SubSeq(xs, i + 1, last)

\* Math.ceil(a / b) for a >= 0, b >= 1
CeilDiv(a, b) == (a + b - 1) \div b

\* all sequences over S of length at most n
RECURSIVE SeqsUpTo(_, _)
SeqsUpTo(S, n) ==
  IF n = 0 THEN {<<>>}
  ELSE LET shorter == SeqsUpTo(S, n - 1)
       IN  shorter \cup {Append(xs, x) : xs \in {ys \in shorter : Len(ys) = n - 1}, x \in S}

(***************************************************************************)
(* Chunks. A chunk keeps content, summary number, chunkIndex, totalChunks; *)
(* its keywords are derived from the content alone and are left out.       *)
(***************************************************************************)
Chunk(c, n, idx, total) ==
  [content |-> c, summary |-> n, chunkIndex |-> idx, totalChunks |-> total]

\* chunk-content: the final loop "chunk.totalChunks = chunks.length"
SetTotalChunks(chunks) ==
  [i \in 1..Len(chunks) |-> [chunks[i] EXCEPT !.totalChunks = Len(chunks)]]

\* the test with the words of the current chunk forgotten
ClosesChunkIgnoringCount(wordCount, sentenceWords, maxWords, currentChunk) ==
  sentenceWords > maxWords /\ Len(currentChunk) > 0

\* chunk-content fallbackChunking: the test that closes the current chunk
ClosesChunk(wordCount, sentenceWords, maxWords, currentChunk) ==
  wordCount + sentenceWords > maxWords /\ Len(currentChunk) > 0

\* chunk-content fallbackChunking: the loop over the sentences
RECURSIVE FallbackLoop(_, _, _, _, _)
FallbackLoop(sentences, maxWords, chunks, currentChunk, wordCount) ==
  IF Len(sentences) = 0
  THEN IF Len(currentChunk) > 0
       THEN Append(chunks, Chunk(JoinSpace(currentChunk), Len(chunks) + 1, Len(chunks) + 1, 0))
       ELSE chunks
  ELSE LET sentence == Head(sentences)
           sentenceWords == Len(SplitWords(sentence))
       IN  IF ClosesChunk(wordCount, sentenceWords, maxWords, currentChunk)
           THEN FallbackLoop(Tail(sentences), maxWords,
                  Append(chunks, Chunk(JoinSpace(currentChunk), Len(chunks) + 1, Len(chunks) + 1, 0)),
                  <<sentence>>, sentenceWords)
           ELSE FallbackLoop(Tail(sentences), maxWords, chunks,
                  Append(currentChunk, sentence), wordCount + sentenceWords)

\* chunk-content fallbackChunking(content, maxWords): sentence based
fallbackChunking(text, maxWords) ==
  SetTotalChunks(FallbackLoop(SplitSentences(text), maxWords, <<>>, <<>>, 0))

\* GeminiChunker.fallbackChunking: the loop "for (i = 0; i < words.length; i += maxWords)"
RECURSIVE ClientFallbackLoop(_, _, _, _)
ClientFallbackLoop(words, maxWords, i, chunks) ==
  IF i >= Len(words) THEN chunks
  ELSE ClientFallbackLoop(words, maxWords, i + maxWords,
         Append(chunks, Chunk(JoinSpace(Slice(words, i, maxWords)), Len(chunks) + 1,
                              Len(chunks) + 1, CeilDiv(Len(words), maxWords))))

\* GeminiChunker.fallbackChunking(content, maxWords): word based
clientFallbackChunking(text, maxWords) ==
  ClientFallbackLoop(SplitWords(text), maxWords, 0, <<>>)

(***************************************************************************)
(* The chunk-content edge function and its client.                         *)
(***************************************************************************)
\* chunk-content: the maxWords the handler passes to fallbackChunking
ServerFallbackMaxWords == 75

\* GeminiChunker.chunkContent: the default of maxWordsPerChunk
DefaultMaxWordsPerChunk == 75

\* the characters of the enumerated contents: a letter, a sentence end, a blank
Alphabet == {"a", ".", " "}

\* the content of the end-to-end scenario, "Cats are mammals. Dogs are mammals too."
CatsAndDogs ==
  <<"C","a","t","s"," ","a","r","e"," ","m","a","m","m","a","l","s","."," ",
    "D","o","g","s"," ","a","r","e"," ","m","a","m","m","a","l","s"," ","t","o","o",".">>

\* three sentences of two, one and two words: "a a. a. a a."
ThreeSentences == <<"a"," ","a","."," ","a","."," ","a"," ","a",".">>

\* the contents a caller submits
Contents == SeqsUpTo(Alphabet, MaxLen) \cup {CatsAndDogs, ThreeSentences}

\* the maxWordsPerChunk values a caller passes
MaxWordsValues == (1..MaxWords) \cup {DefaultMaxWordsPerChunk}

\* what the segmentation oracle may put in one element of its array; the
\* chunkIndex and totalChunks it writes need not be right
OracleChunkValues ==
  { Chunk(<<"a", ".">>, 1, 1, 1), Chunk(<<"a">>, 2, 0, 3), Chunk(<<"a", " ", "a">>, 3, 2, 0) }

OracleChunkLists == SeqsUpTo(OracleChunkValues, MaxOracleChunks)

\* What happens after the request body is read: the access token exchange
\* fails, Vertex AI answers non-2xx, the answer holds no text, or it holds a
\* text. direct is what JSON.parse(responseText) gives (an array, another JSON
\* value, a SyntaxError) and bracket what the /\[[\s\S]*\]/ recovery gives.
Outcome(kind, direct, bracket, chunks) ==
  [kind |-> kind, direct |-> direct, bracket |-> bracket, chunks |-> chunks]

VertexOutcomes ==
  { Outcome("token_error", "none", "none", <<>>),
    Outcome("http_error", "none", "none", <<>>),
    Outcome("no_text", "none", "none", <<>>),
    Outcome("text", "value", "none", <<>>),
    Outcome("text", "syntax_error", "none", <<>>),
    Outcome("text", "syntax_error", "syntax_error", <<>>) }
  \cup { Outcome("text", "array", "none", cs) : cs \in OracleChunkLists }
  \cup { Outcome("text", "syntax_error", "array", cs) : cs \in OracleChunkLists }

NoResponse == [status |-> 0, chunks |-> <<>>, via |-> "none"]

NotServed == [keyPresent |-> FALSE, outcome |-> Outcome("none", "none", "none", <<>>)]

\* chunk-content: "chunks.map((chunk, index) => ({...chunk, chunkIndex: index + 1,
\* totalChunks: chunks.length}))"
Reindex(chunks) ==
  [i \in 1..Len(chunks) |->
     [chunks[i] EXCEPT !.chunkIndex = i, !.totalChunks = Len(chunks)]]

\* chunk-content: whether the text of the oracle parses to an array, directly
\* or through the bracket recovery; every other text throws
ParsesToArray(outcome) ==
  /\ outcome.kind = "text"
  /\ \/ outcome.direct = "array"
     \/ outcome.direct = "syntax_error" /\ outcome.bracket = "array"

\* chunk-content: the catch block. It reads the request body again; a body
\* that the try block has read already cannot be read twice, so req.json()
\* rejects and the inner catch answers 500.
ServeCatch(bodyUsed, reqContent) ==
  IF bodyUsed
  THEN [status |-> 500, chunks |-> <<>>, via |-> "error"]
  ELSE [status |-> 200, chunks |-> fallbackChunking(reqContent, ServerFallbackMaxWords),
        via |-> "serverFallback"]

\* chunk-content: the handler, from the request to the HTTP response
ServeChunkContent(reqContent, keyPresent, outcome) ==
  IF ~keyPresent THEN ServeCatch(FALSE, reqContent)
  ELSE IF reqContent = <<>> THEN ServeCatch(TRUE, reqContent)
  ELSE IF ParsesToArray(outcome)
       THEN [status |-> 200, chunks |-> Reindex(outcome.chunks), via |-> "primary"]
       ELSE ServeCatch(TRUE, reqContent)

InitChunk ==
  /\ cpc = "idle"
  /\ content = <<>>
  /\ maxWordsPerChunk = DefaultMaxWordsPerChunk
  /\ httpResponse = NoResponse
  /\ chunkResult = <<>>
  /\ chunkVia = "none"
  /\ served = NotServed

\* GeminiChunker.chunkContent is called and posts the request
ChunkContentCall ==
  /\ cpc = "idle"
  /\ \E c \in Contents, m \in MaxWordsValues :
       /\ content' = c
       /\ maxWordsPerChunk' = m
  /\ cpc' = "sent"
  /\ UNCHANGED <<httpResponse, chunkResult, chunkVia, served>>
  /\ UNCHANGED outsideChunk

\* the edge function handles the request
ChunkContentServe ==
  /\ cpc = "sent"
  /\ \E keyPresent \in BOOLEAN, outcome \in VertexOutcomes :
       /\ httpResponse' = ServeChunkContent(content, keyPresent, outcome)
       /\ served' = [keyPresent |-> keyPresent, outcome |-> outcome]
  /\ cpc' = "responded"
  /\ UNCHANGED <<content, maxWordsPerChunk, chunkResult, chunkVia>>
  /\ UNCHANGED outsideChunk

\* GeminiChunker.chunkContent: the response arrives; "return data.chunks"
\* when it is ok, the catch block and the client fallback otherwise
ChunkContentReceive ==
  /\ cpc = "responded"
  /\ IF httpResponse.status = 200
     THEN /\ chunkResult' = httpResponse.chunks
          /\ chunkVia' = httpResponse.via
     ELSE /\ chunkResult' = clientFallbackChunking(content, maxWordsPerChunk)
          /\ chunkVia' = "clientFallback"
  /\ cpc' = "done"
  /\ UNCHANGED <<content, maxWordsPerChunk, httpResponse, served>>
  /\ UNCHANGED outsideChunk

\* GeminiChunker.chunkContent: fetch rejects (the request or the response is
\* lost); the catch block runs the client fallback
ChunkContentNetworkFailure ==
  /\ cpc \in {"sent", "responded"}
  /\ chunkResult' = clientFallbackChunking(content, maxWordsPerChunk)
  /\ chunkVia' = "clientFallback"
  /\ cpc' = "done"
  /\ UNCHANGED <<content, maxWordsPerChunk, httpResponse, served>>
  /\ UNCHANGED outsideChunk

NextChunk ==
  \/ ChunkContentCall
  \/ ChunkContentServe
  \/ ChunkContentReceive
  \/ ChunkContentNetworkFailure

\* chunk-content fallbackChunking applied to a content and a maxWords of the
\* caller's choice
FallbackChunkingCall ==
  /\ cpc = "idle"
  /\ \E c \in Contents, m \in MaxWordsValues :
       /\ content' = c
       /\ maxWordsPerChunk' = m
       /\ chunkResult' = fallbackChunking(c, m)
  /\ chunkVia' = "serverFallback"
  /\ cpc' = "done"
  /\ UNCHANGED <<httpResponse, served>>
  /\ UNCHANGED outsideChunk

NextFallback == FallbackChunkingCall

(***************************************************************************)
(* Properties of the chunker.                                              *)
(***************************************************************************)
\* the sentences of the chunks, in chunk order
RECURSIVE SentencesOfChunks(_)
SentencesOfChunks(chunks) ==
  IF Len(chunks) = 0 THEN <<>>
  ELSE SplitSentences(Head(chunks).content) \o SentencesOfChunks(Tail(chunks))

WordsIn(chunk) == Len(SplitWords(chunk.content))

WellIndexed(chunks) ==
  \A i \in 1..Len(chunks) :
    /\ 1 <= chunks[i].chunkIndex
    /\ chunks[i].chunkIndex <= chunks[i].totalChunks
    /\ chunks[i].totalChunks = chunks[1].totalChunks

\* C1: for every non-empty content and maxWordsPerChunk >= 1, whatever the
\* endpoint does, chunkContent returns at least one chunk, every chunk with
\* 1 <= chunkIndex <= totalChunks and one totalChunks for the whole call.
C1_AtLeastOneWellIndexedChunk ==
  (cpc = "done" /\ content # <<>> /\ maxWordsPerChunk >= 1)
    => (Len(chunkResult) >= 1 /\ WellIndexed(chunkResult))

\* the oracle answered, with an empty or a malformed payload
EmptyOrMalformedPayload(o) ==
  \/ o.kind = "no_text"
  \/ o.kind = "text" /\ ~ParsesToArray(o)
  \/ o.kind = "text" /\ ParsesToArray(o) /\ Len(o.chunks) = 0

\* C2: when the oracle returns an empty or malformed payload for non-empty
\* content, the result comes from a fallback and holds at least one chunk.
C2_EmptyPayloadRoutesToFallback ==
  (cpc = "done" /\ content # <<>> /\ served.keyPresent
     /\ EmptyOrMalformedPayload(served.outcome))
    => (chunkVia \in {"serverFallback", "clientFallback"} /\ Len(chunkResult) >= 1)

\* C3: for empty content chunkContent returns the empty sequence, on every
\* path.
C3_EmptyContentGivesNoChunk ==
  (cpc = "done" /\ content = <<>>) => chunkResult = <<>>

\* words separated by single blanks, no blank at either end
PlainText(s) ==
  /\ \A i \in 1..Len(SplitWords(s)) : Len(SplitWords(s)[i]) > 0
  /\ JoinSpace(SplitWords(s)) = s

\* C4: a result produced by a fallback path (server or client) splits no
\* sentence: the sentences of the chunks, in chunkIndex order, are the
\* sentences of the content. Stated for plain text, where blanks at the ends
\* of the content cannot blur what a sentence is.
C4_FallbackKeepsSentences ==
  (cpc = "done" /\ chunkVia \in {"serverFallback", "clientFallback"} /\ PlainText(content))
    => SentencesOfChunks(chunkResult) = SplitSentences(content)

UpperCase ==
  <<"A","B","C","D","E","F","G","H","I","J","K","L","M","N","O","P","Q","R","S","T","U",
    "V","W","X","Y","Z">>

LowerCase ==
  <<"a","b","c","d","e","f","g","h","i","j","k","l","m","n","o","p","q","r","s","t","u",
    "v","w","x","y","z">>

\* String.prototype.toLowerCase, on one character
LowerChar(c) ==
  IF \E i \in 1..26 : UpperCase[i] = c
  THEN LowerCase[CHOOSE i \in 1..26 : UpperCase[i] = c]
  ELSE c

\* String.prototype.toUpperCase, on one character
UpperChar(c) ==
  IF \E i \in 1..26 : LowerCase[i] = c
  THEN UpperCase[CHOOSE i \in 1..26 : LowerCase[i] = c]
  ELSE c

ToLowerCase(s) == [i \in 1..Len(s) |-> LowerChar(s[i])]

ToUpperCase(s) == [i \in 1..Len(s) |-> UpperChar(s[i])]

\* the last index <= i of s that holds no whitespace, 0 if none
RECURSIVE SkipSpaceBack(_, _)
SkipSpaceBack(s, i) ==
  IF i < 1 \/ ~IsSpace(s[i]) THEN i ELSE SkipSpaceBack(s, i - 1)

\* String.prototype.trim
Trim(s) == SubSeq(s, SkipSpace(s, 1), SkipSpaceBack(s, Len(s)))

\* s without its first n characters
Drop(s, n) == SubSeq(s, n + 1, Len(s))

\* String.prototype.startsWith
StartsWith(s, p) == Len(s) >= Len(p) /\ SubSeq(s, 1, Len(p)) = p

\* String.prototype.includes
Includes(s, p) ==
  \E i \in 0..Len(s) : i + Len(p) <= Len(s) /\ SubSeq(s, i + 1, i + Len(p)) = p

\* String.prototype.substring(0, n)
Substring0(s, n) == SubSeq(s, 1, IF n < Len(s) THEN n ELSE Len(s))

\* Regular expression matching by remainders: from a set of strings, what is
\* left of those that start with a literal, with one of several literals, or
\* with a run of whitespace (\s+ followed by a literal that starts with no
\* whitespace can only take the whole run).
AfterLiteral(S, lit) == { Drop(s, Len(lit)) : s \in { x \in S : StartsWith(x, lit) } }

AfterAnyLiteral(S, lits) == UNION { AfterLiteral(S, l) : l \in lits }

AfterSpaces(S) ==
  { Drop(s, SkipSpace(s, 1) - 1) : s \in { x \in S : Len(x) > 0 /\ IsSpace(x[1]) } }

(***************************************************************************)
(* chat-query: the gap filter.                                             *)
(***************************************************************************)
\* chat-query: commonGreetings
commonGreetings ==
  { <<"h","i">>,
    <<"h","e","y">>,
    <<"h","e","l","l","o">>,
    <<"t","e","s","t">>,
    <<"h","o","l","a">>,
    <<"y","o">>,
    <<"s","u","p">>,
    <<"h","o","w","d","y">>,
    <<"g","r","e","e","t","i","n","g","s">>,
    <<"g","o","o","d"," ","m","o","r","n","i","n","g">>,
    <<"g","o","o","d"," ","a","f","t","e","r","n","o","o","n">>,
    <<"g","o","o","d"," ","e","v","e","n","i","n","g">>,
    <<"t","h","a","n","k","s">>,
    <<"t","h","a","n","k"," ","y","o","u">>,
    <<"h","e","l","p">>,
    <<"h","e","l","p"," ","m","e">>,
    <<"c","a","n"," ","y","o","u"," ","h","e","l","p">>,
    <<"p","l","e","a","s","e"," ","h","e","l","p">>,
    <<"i"," ","n","e","e","d"," ","h","e","l","p">>,
    <<"w","h","a","t"," ","c","a","n"," ","y","o","u"," ","d","o">>,
    <<"w","h","a","t"," ","d","o"," ","y","o","u"," ","d","o">> }

\* chat-query: the alternatives of the generic help request pattern
HelpOpeners ==
  { <<"c","a","n"," ","y","o","u">>,
    <<"c","o","u","l","d"," ","y","o","u">>,
    <<"w","o","u","l","d"," ","y","o","u">>,
    <<"w","i","l","l"," ","y","o","u">>,
    <<"p","l","e","a","s","e">> }

HelpVerbs == { <<"h","e","l","p">>, <<"a","s","s","i","s","t">> }

\* chat-query: /^(can you|could you|would you|will you|please)\s+(help|assist)/i
\* on a trimmed query
IsGenericHelpRequest(t) ==
  AfterAnyLiteral(AfterSpaces(AfterAnyLiteral({ToLowerCase(t)}, HelpOpeners)), HelpVerbs) # {}

\* chat-query: the alternatives of the looksLikeResponse pattern, written out
ResponseOpeners ==
  { <<"n","o","n","e"," ","o","f"," ","t","h","i","s">>,
    <<"t","h","i","s"," ","d","i","d","n","'","t"," ","h","e","l","p">>,
    <<"t","h","i","s"," ","d","i","d"," ","n","o","t"," ","h","e","l","p">>,
    <<"n","o","t"," ","h","e","l","p","f","u","l">>,
    <<"c","a","n","'","t"," ","h","e","l","p">>,
    <<"c","a","n"," ","n","o","t"," ","h","e","l","p">>,
    <<"f","o","r","w","a","r","d"," ","t","h","e"," ","i","s","s","u","e">>,
    <<"c","o","n","t","a","c","t"," ","s","u","p","p","o","r","t">>,
    <<"t","a","l","k"," ","t","o"," ","s","o","m","e","o","n","e">> }

\* chat-query: looksLikeResponse
looksLikeResponse(q) ==
  AfterAnyLiteral({ToLowerCase(Trim(q))}, ResponseOpeners) # {}

IssueNouns ==
  { <<"a","n"," ","i","s","s","u","e">>,
    <<"a"," ","p","r","o","b","l","e","m">>,
    <<"a"," ","q","u","e","s","t","i","o","n">> }

IssueOpeners ==
  { <<"i"," ","h","a","v","e"," ">>,
    <<"i","'","m"," ","h","a","v","i","n","g"," ">>,
    <<"i"," ","a","m"," ","h","a","v","i","n","g"," ">> }

\* chat-query: the tail "(\s+with|\s+about)?(\s+this)?\.?$" of both
\* isJustIssueStatement patterns: whether one of the strings of S matches it
MatchesIssueTail(S) ==
  LET afterPrep == S \cup AfterAnyLiteral(AfterSpaces(S), { <<"w","i","t","h">>, <<"a","b","o","u","t">> })
      afterThis == afterPrep \cup AfterLiteral(AfterSpaces(afterPrep), <<"t","h","i","s">>)
      afterDot  == afterThis \cup AfterLiteral(afterThis, <<".">>)
  IN  <<>> \in afterDot

\* chat-query: isJustIssueStatement, the two patterns
\* /^i have (an issue|a problem|a question)(\s+with|\s+about)?(\s+this)?\.?$/i and
\* /^i('m| am) having (an issue|a problem|a question)(\s+with|\s+about)?(\s+this)?\.?$/i
isJustIssueStatement(q) ==
  MatchesIssueTail(AfterAnyLiteral(AfterAnyLiteral({ToLowerCase(Trim(q))}, IssueOpeners), IssueNouns))

\* chat-query: the length above which a trimmed query is substantial
MinQueryLength == 15

\* chat-query: the word count above which a query is substantial
MinQueryWords == 3

\* chat-query: isSubstantialQuery
isSubstantialQuery(q) ==
  /\ Len(Trim(q)) > MinQueryLength
  /\ ~(\E greeting \in commonGreetings : ToLowerCase(Trim(q)) = greeting)
  /\ Len(SplitWords(Trim(q))) > MinQueryWords
  /\ ~IsGenericHelpRequest(Trim(q))

(***************************************************************************)
(* The queries of the chat requests.                                       *)
(***************************************************************************)
\* "hi": a greeting
Q_Hi ==
  <<"h","i">>

\* "The login button is completely broken and nothing works": the issue of the gap filter scenario, 55 characters
Q_LoginBroken ==
  <<"T","h","e"," ","l","o","g","i","n"," ","b","u","t","t","o","n"," ","i","s"," ","c",
    "o","m","p","l","e","t","e","l","y"," ","b","r","o","k","e","n"," ","a","n","d"," ",
    "n","o","t","h","i","n","g"," ","w","o","r","k","s">>

\* "How do I reset my password?": the inquiry of the gap filter scenario, 27 characters
Q_ResetPassword ==
  <<"H","o","w"," ","d","o"," ","I"," ","r","e","s","e","t"," ","m","y"," ","p","a","s",
    "s","w","o","r","d","?">>

\* "Can you  help me with the login page": a generic help request
Q_HelpRequest ==
  <<"C","a","n"," ","y","o","u"," "," ","h","e","l","p"," ","m","e"," ","w","i","t","h",
    " ","t","h","e"," ","l","o","g","i","n"," ","p","a","g","e">>

\* "This didn't help me at all": a reply to the assistant
Q_Echo ==
  <<"T","h","i","s"," ","d","i","d","n","'","t"," ","h","e","l","p"," ","m","e"," ","a",
    "t"," ","a","l","l">>

\* "I have an issue with this.": a bare issue statement
Q_IssueStatement ==
  <<"I"," ","h","a","v","e"," ","a","n"," ","i","s","s","u","e"," ","w","i","t","h"," ",
    "t","h","i","s",".">>

\* "how do i log in": 15 characters, 5 words
Q_Fifteen ==
  <<"h","o","w"," ","d","o"," ","i"," ","l","o","g"," ","i","n">>

\* " how do i log in? ": 16 characters once trimmed
Q_Sixteen ==
  <<" ","h","o","w"," ","d","o"," ","i"," ","l","o","g"," ","i","n","?"," ">>

\* "authentication keeps failing": 28 characters, 3 words
Q_ThreeWords ==
  <<"a","u","t","h","e","n","t","i","c","a","t","i","o","n"," ","k","e","e","p","s"," ",
    "f","a","i","l","i","n","g">>

\* "How do I reset my passwords?": 28 characters, 6 words
Q_ResetPasswords ==
  <<"H","o","w"," ","d","o"," ","I"," ","r","e","s","e","t"," ","m","y"," ","p","a","s",
    "s","w","o","r","d","s","?">>

\* "": the empty query, refused with 'Query is required'
Q_Empty ==
  <<>>

\* the queries of the chat requests
ChatQueries ==
  { Q_Hi, Q_ResetPassword, Q_HelpRequest, Q_Echo,
    Q_IssueStatement, Q_Fifteen, Q_ThreeWords, Q_ResetPasswords, Q_Empty }

\* the queries the gap filter is applied to
FilterQueries == ChatQueries \cup {Q_Sixteen, Q_LoginBroken}

(***************************************************************************)
(* chat-query: retrieval.                                                  *)
(***************************************************************************)
\* number of requests the edge function serves
MaxRequests == 2
\* number of rows of the embeddings table
NumRows == 2

\* similarities are in hundredths: 0.4 is 40
\* chat-query: the match_threshold the handler passes to searchSimilarContent
SearchThreshold == 40

\* chat-query: hasRelevantContent, "item.similarity > 0.5"
SufficiencyThreshold == 50

\* chat-query: searchSimilarContent, limit = 5
DefaultMatchCount == 5

\* the similarities the vector index may compute for a row and a query
SimValues == {40, 45, 50, 51}

\* the projects table: slug, id and owner
Projects ==
  { [slug |-> "s1", id |-> "p1", user_id |-> "u1"],
    [slug |-> "s2", id |-> "p2", user_id |-> "u2"] }

\* the rows of an embeddings table of n rows. Rows 1 and 2 are in project p1,
\* stored by its owner u1 and by another user u2; rows 3 and 4 are in project
\* p2, stored by its owner u2 and by u1; the rows past the fourth are the
\* owner's in p1. The even rows come from issues, the odd ones from contexts.
EmbeddingTable(n) ==
  { [id |-> i,
     project_id |-> IF i \in {3, 4} THEN "p2" ELSE "p1",
     user_id |-> IF i \in {2, 3} THEN "u2" ELSE "u1",
     source_type |-> IF i % 2 = 0 THEN "issue" ELSE "context"] :
    i \in 1..n }

\* the embeddings table the chat requests search
EmbeddingRows == EmbeddingTable(NumRows)

\* the value of an absent (NULL) argument
Null == "null"

Min(a, b) == IF a < b THEN a ELSE b

\* similarity_search: the rows of the WHERE clause
MatchingRows(table, sims, match_threshold, filter_project_id, filter_user_id) ==
  { e \in table :
      /\ (filter_project_id = Null \/ e.project_id = filter_project_id)
      /\ (filter_user_id = Null \/ e.user_id = filter_user_id)
      /\ sims[e.id] > match_threshold }

\* similarity_search without its ORDER BY: any match_count of the rows, in
\* any order
similarity_search_unordered(table, sims, match_threshold, match_count, filter_project_id, filter_user_id) ==
  LET rows == MatchingRows(table, sims, match_threshold, filter_project_id, filter_user_id)
      n == Min(match_count, Cardinality(rows))
  IN  { [i \in 1..n |-> [id |-> f[i].id, similarity |-> sims[f[i].id],
                          source_type |-> f[i].source_type]] :
          f \in { g \in [1..n -> rows] : \A i, j \in 1..n : i < j => g[i] # g[j] } }

\* similarity_search: the possible results. ORDER BY distance, LIMIT
\* match_count: closest first, equal distances in any order.
similarity_search(table, sims, match_threshold, match_count, filter_project_id, filter_user_id) ==
  LET rows == MatchingRows(table, sims, match_threshold, filter_project_id, filter_user_id)
      n == Min(match_count, Cardinality(rows))
  IN  { [i \in 1..n |-> [id |-> f[i].id, similarity |-> sims[f[i].id],
                          source_type |-> f[i].source_type]] :
          f \in { g \in [1..n -> rows] :
                    /\ \A i, j \in 1..n : i < j => g[i] # g[j] /\ sims[g[i].id] >= sims[g[j].id]
                    /\ \A e \in rows : (\A i \in 1..n : g[i] # e) =>
                                          \A i \in 1..n : sims[g[i].id] >= sims[e.id] } }

\* "item.similarity > 0.5" with >= in place of >
hasRelevantContentAtThreshold(found) ==
  Len(found) > 0
    /\ \E i \in 1..Len(found) : found[i].similarity >= SufficiencyThreshold

\* chat-query: hasRelevantContent
hasRelevantContentOf(found) ==
  Len(found) > 0
    /\ \E i \in 1..Len(found) : found[i].similarity > SufficiencyThreshold

(***************************************************************************)
(* chat-query: classification and the gap record.                          *)
(***************************************************************************)
\* the filter test without the gap filter
ShouldLogGapUnfiltered(relevant, q) == ~relevant

\* chat-query: "if (!hasRelevantContent && isSubstantialQuery &&
\* !looksLikeResponse && !isJustIssueStatement)"
ShouldLogGap(relevant, q) ==
  /\ ~relevant
  /\ isSubstantialQuery(q)
  /\ ~looksLikeResponse(q)
  /\ ~isJustIssueStatement(q)

ClassifierOutcome(kind, text) == [kind |-> kind, text |-> text]

NoClassifierOutcome == ClassifierOutcome("none", <<>>)

\* the texts the classification oracle may answer with
ClassifierTexts ==
  { <<"I","S","S","U","E">>,
    <<"I","N","Q","U","I","R","Y">>,
    <<"I","n","q","u","i","r","y">>,
    <<" ","i","s","s","u","e","\n">>,
    <<>> }

\* isQuestionAnIssue: Vertex AI answers non-2xx, the call or its JSON throws,
\* or a text comes back (an absent text is '')
ClassifierOutcomes ==
  { ClassifierOutcome("http_error", <<>>), ClassifierOutcome("throw", <<>>) }
  \cup { ClassifierOutcome("text", t) : t \in ClassifierTexts }

\* a classifier that takes a failure for an issue
isQuestionAnIssueFailOpen(outcome) ==
  \/ outcome.kind # "text"
  \/ Includes(ToUpperCase(Trim(outcome.text)), <<"I","S","S","U","E">>)

\* chat-query: isQuestionAnIssue
isQuestionAnIssue(outcome) ==
  /\ outcome.kind = "text"
  /\ Includes(ToUpperCase(Trim(outcome.text)), <<"I","S","S","U","E">>)

\* chat-query: "query.length > 27"
TitleCutAbove == 27

\* chat-query: "query.substring(0, 24)"
TitleKeep == 24

KnowledgeGapPrefix ==
  <<"K","n","o","w","l","e","d","g","e"," ","G","a","p",":"," ">>

\* a title that keeps the whole query
GapTitleUncut(q) == KnowledgeGapPrefix \o q

\* a title cut as soon as the query is longer than the part that is kept
GapTitleCutAboveKeep(q) ==
  KnowledgeGapPrefix \o
    (IF Len(q) > TitleKeep
     THEN Substring0(q, TitleKeep) \o <<".", ".", ".">>
     ELSE q)

\* chat-query: the title of the inserted row
GapTitle(q) ==
  KnowledgeGapPrefix \o
    (IF Len(q) > TitleCutAbove
     THEN Substring0(q, TitleKeep) \o <<".", ".", ".">>
     ELSE q)

GapTags == {"ai-gap", "needs-review", "auto-detected"}

\* chat-query: the row inserted in the issues table
IssueRow(q, project) ==
  [title |-> GapTitle(q), description |-> q, severity |-> "medium",
   status |-> "open", tags |-> GapTags,
   user_id |-> project.user_id, project_id |-> project.id]

\* chat-query: the row inserted in the inquiries table
InquiryRow(q, project) ==
  [title |-> GapTitle(q), description |-> q, content |-> q,
   tags |-> GapTags,
   user_id |-> project.user_id, project_id |-> project.id]

\* an insert that skips a row whose description the table holds already
InsertRowDeduplicated(table, row) ==
  IF \E i \in 1..Len(table) : table[i].description = row.description
  THEN table
  ELSE Append(table, row)

\* supabase.from(table).insert(row), when it succeeds
InsertRow(table, row) == Append(table, row)

\* a response that reports the classification whether or not a row was created
SuccessResponseUnguarded(answer, found, relevant, q, gapType, gapCreated) ==
  [status |-> 200, response |-> answer, context |-> found,
   knowledgeGap |-> ~relevant /\ isSubstantialQuery(q),
   knowledgeGapType |-> gapType]

\* a response that reports the classification of a gap that was not persisted
SuccessResponseTypeOfUnsavedGap(answer, found, relevant, q, gapType, gapCreated) ==
  [status |-> 200, response |-> answer, context |-> found,
   knowledgeGap |-> ~relevant /\ gapCreated /\ isSubstantialQuery(q),
   knowledgeGapType |-> gapType]

\* chat-query: the body of the 200 response; a null context is <<>>
SuccessResponse(answer, found, relevant, q, gapType, gapCreated) ==
  [status |-> 200, response |-> answer, context |-> found,
   knowledgeGap |-> ~relevant /\ gapCreated /\ isSubstantialQuery(q),
   knowledgeGapType |-> IF gapCreated THEN gapType ELSE Null]

\* chat-query: the 500 response of the outer catch
ErrorResponse ==
  [status |-> 500, response |-> "none", context |-> <<>>,
   knowledgeGap |-> FALSE, knowledgeGapType |-> Null]

NoChatResponse ==
  [status |-> 0, response |-> "none", context |-> <<>>,
   knowledgeGap |-> FALSE, knowledgeGapType |-> Null]

NoProject == [slug |-> "none", id |-> "none", user_id |-> "none"]

(***************************************************************************)
(* chat-query: the handler, one action per awaited step. Requests are      *)
(* served one after the other; they share the issues and inquiries tables. *)
(***************************************************************************)

InitChat ==
  /\ hpc = "idle"
  /\ requestsDone = 0
  /\ query = <<>>
  /\ projectInfo = NoProject
  /\ similarContent = <<>>
  /\ hasRelevantContent = FALSE
  /\ response = "none"
  /\ knowledgeGapType = Null
  /\ knowledgeGapCreated = FALSE
  /\ chatResponse = NoChatResponse
  /\ issues = <<>>
  /\ inquiries = <<>>
  /\ classifierOutcome = NoClassifierOutcome
  /\ insertOutcome = "none"
  /\ issuesAtStart = 0
  /\ inquiriesAtStart = 0

\* the outer catch: the request ends with the 500 response
ChatFail ==
  /\ chatResponse' = ErrorResponse
  /\ hpc' = "responded"
  /\ requestsDone' = requestsDone + 1

\* what can go wrong between the body and the embedding: a missing project
\* slug, a missing key, the token exchange, missing credentials, the project
PreambleOutcomes == {"ok", "no_slug", "no_key", "token_error", "no_credentials", "project_error"}

\* chat-query: a request arrives; the body is read and checked, the access
\* token and the project are fetched
ChatReceive ==
  /\ hpc \in {"idle", "responded"}
  /\ requestsDone < MaxRequests
  /\ \E q \in ChatQueries, project \in Projects, pre \in PreambleOutcomes :
       /\ query' = q
       /\ IF q = <<>> \/ pre # "ok"
          THEN /\ ChatFail
               /\ projectInfo' = NoProject
          ELSE /\ projectInfo' = project
               /\ hpc' = "retrieve"
               /\ chatResponse' = NoChatResponse
               /\ UNCHANGED requestsDone
  /\ similarContent' = <<>>
  /\ hasRelevantContent' = FALSE
  /\ response' = "none"
  /\ knowledgeGapType' = Null
  /\ knowledgeGapCreated' = FALSE
  /\ classifierOutcome' = NoClassifierOutcome
  /\ insertOutcome' = "none"
  /\ issuesAtStart' = Len(issues)
  /\ inquiriesAtStart' = Len(inquiries)
  /\ UNCHANGED <<issues, inquiries>>
  /\ UNCHANGED outsideChat

\* chat-query: generateEmbedding and searchSimilarContent, then the context
\* and hasRelevantContent
ChatRetrieve ==
  /\ hpc = "retrieve"
  /\ \E outcome \in {"ok", "embedding_error", "search_error"} :
       IF outcome = "ok"
       THEN /\ \E sims \in [1..NumRows -> SimValues] :
                 \E found \in similarity_search(EmbeddingRows, sims, SearchThreshold, DefaultMatchCount,
                                                projectInfo.id, Null) :
                   /\ similarContent' = found
                   /\ hasRelevantContent' = hasRelevantContentOf(found)
            /\ hpc' = "generate"
            /\ UNCHANGED <<chatResponse, requestsDone>>
       ELSE /\ ChatFail
            /\ UNCHANGED <<similarContent, hasRelevantContent>>
  /\ UNCHANGED <<query, projectInfo, response, knowledgeGapType, knowledgeGapCreated,
                 issues, inquiries, classifierOutcome, insertOutcome,
                 issuesAtStart, inquiriesAtStart>>
  /\ UNCHANGED outsideChat

\* chat-query: generateResponse, then the test of the gap block
ChatGenerate ==
  /\ hpc = "generate"
  /\ \E ok \in BOOLEAN :
       IF ok
       THEN /\ response' = "answer"
            /\ hpc' = IF ShouldLogGap(hasRelevantContent, query) THEN "classify" ELSE "respond"
            /\ UNCHANGED <<chatResponse, requestsDone>>
       ELSE /\ ChatFail
            /\ UNCHANGED response
  /\ UNCHANGED <<query, projectInfo, similarContent, hasRelevantContent, knowledgeGapType,
                 knowledgeGapCreated, issues, inquiries, classifierOutcome, insertOutcome,
                 issuesAtStart, inquiriesAtStart>>
  /\ UNCHANGED outsideChat

\* chat-query: "knowledgeGapType = await isQuestionAnIssue(...) ? 'issue' : 'inquiry'"
ChatClassify ==
  /\ hpc = "classify"
  /\ \E outcome \in ClassifierOutcomes :
       /\ classifierOutcome' = outcome
       /\ knowledgeGapType' = IF isQuestionAnIssue(outcome) THEN "issue" ELSE "inquiry"
  /\ hpc' = "insert"
  /\ UNCHANGED <<requestsDone, query, projectInfo, similarContent, hasRelevantContent, response,
                 knowledgeGapCreated, chatResponse, issues, inquiries, insertOutcome,
                 issuesAtStart, inquiriesAtStart>>
  /\ UNCHANGED outsideChat

\* chat-query: the insert in issues or inquiries, inside its try/catch: it
\* succeeds, returns an error or throws
ChatInsert ==
  /\ hpc = "insert"
  /\ \E outcome \in {"ok", "error", "throw"} :
       /\ insertOutcome' = outcome
       /\ knowledgeGapCreated' = (outcome = "ok")
       /\ IF outcome = "ok" /\ knowledgeGapType = "issue"
          THEN issues' = InsertRow(issues, IssueRow(query, projectInfo))
          ELSE UNCHANGED issues
       /\ IF outcome = "ok" /\ knowledgeGapType # "issue"
          THEN inquiries' = InsertRow(inquiries, InquiryRow(query, projectInfo))
          ELSE UNCHANGED inquiries
  /\ hpc' = "respond"
  /\ UNCHANGED <<requestsDone, query, projectInfo, similarContent, hasRelevantContent, response,
                 knowledgeGapType, chatResponse, classifierOutcome,
                 issuesAtStart, inquiriesAtStart>>
  /\ UNCHANGED outsideChat

\* chat-query: the 200 response
ChatRespond ==
  /\ hpc = "respond"
  /\ chatResponse' = SuccessResponse(response, similarContent, hasRelevantContent, query,
                                     knowledgeGapType, knowledgeGapCreated)
  /\ hpc' = "responded"
  /\ requestsDone' = requestsDone + 1
  /\ UNCHANGED <<query, projectInfo, similarContent, hasRelevantContent, response,
                 knowledgeGapType, knowledgeGapCreated, issues, inquiries, classifierOutcome,
                 insertOutcome,
                 issuesAtStart, inquiriesAtStart>>
  /\ UNCHANGED outsideChat

NextChat ==
  \/ ChatReceive
  \/ ChatRetrieve
  \/ ChatGenerate
  \/ ChatClassify
  \/ ChatInsert
  \/ ChatRespond

(***************************************************************************)
(* Properties of the chat-query edge function.                             *)
(***************************************************************************)
\* the retrieval of the request is done
Retrieved == hpc \in {"generate", "classify", "insert", "respond"}

\* the queries of the requests that pass the gap filter
GapFilterPasses ==
  { q \in ChatQueries :
      isSubstantialQuery(q) /\ ~looksLikeResponse(q) /\ ~isJustIssueStatement(q) }

\* rows the request has added to each table
IssuesCreated == Len(issues) - issuesAtStart

InquiriesCreated == Len(inquiries) - inquiriesAtStart

\* C6: retrieval is SUFFICIENT iff the result set is non-empty and one result
\* has a similarity strictly above 0.5; a best match of 0.45 or of exactly
\* 0.5 is INSUFFICIENT although it cleared the 0.4 search threshold and is
\* part of the context of the response.
C6_SufficiencyRule ==
  /\ Retrieved =>
       /\ hasRelevantContent <=>
            (Len(similarContent) > 0
               /\ \E i \in 1..Len(similarContent) : similarContent[i].similarity > 50)
       /\ \A i \in 1..Len(similarContent) : similarContent[i].similarity > 40
       /\ (Len(similarContent) > 0 /\ similarContent[1].similarity \in {45, 50})
            => ~hasRelevantContent
  /\ (hpc = "responded" /\ chatResponse.status = 200)
       => (chatResponse.context = similarContent
             /\ ((Len(similarContent) > 0 /\ similarContent[1].similarity \in {45, 50})
                   => ~hasRelevantContent))

\* a request whose best match is 0.45 is INSUFFICIENT and is answered with the
\* match in its context
C6_Witness ==
  /\ hpc = "responded"
  /\ chatResponse.status = 200
  /\ Len(chatResponse.context) > 0
  /\ chatResponse.context[1].similarity = 45
  /\ ~hasRelevantContent

\* C7: the classifier is invoked and a gap record inserted only in a request
\* whose retrieval is INSUFFICIENT and whose query passes the gap filter, the
\* insert only after the classification; a SUFFICIENT or FILTERED_OUT request
\* does neither.
C7_ClassifyOnlyInsufficientAndSubstantial ==
  /\ (hpc \in {"classify", "insert"} \/ classifierOutcome.kind # "none"
        \/ insertOutcome # "none" \/ IssuesCreated + InquiriesCreated > 0)
       => /\ ~(Len(similarContent) > 0
                 /\ \E i \in 1..Len(similarContent) : similarContent[i].similarity > 50)
          /\ query \in GapFilterPasses
  /\ (hpc = "insert" \/ insertOutcome # "none")
       => (classifierOutcome.kind # "none" /\ knowledgeGapType \in {"issue", "inquiry"})

\* a request was classified and its record inserted
C7_Witness ==
  /\ hpc = "responded"
  /\ classifierOutcome.kind # "none"
  /\ insertOutcome = "ok"
  /\ IssuesCreated = 1

\* C8: a request whose insert succeeds creates exactly one record, in exactly
\* one of the two tables; no request creates more than one; nothing is
\* deduplicated, the record is added whatever the tables hold already.
C8_ExactlyOneGapRecord ==
  /\ IssuesCreated >= 0 /\ InquiriesCreated >= 0
  /\ IssuesCreated + InquiriesCreated <= 1
  /\ insertOutcome = "ok" =>
       /\ IssuesCreated + InquiriesCreated = 1
       /\ knowledgeGapType = "issue" =>
            (IssuesCreated = 1 /\ issues[Len(issues)].description = query)
       /\ knowledgeGapType = "inquiry" =>
            (InquiriesCreated = 1 /\ inquiries[Len(inquiries)].description = query)
  /\ insertOutcome # "ok" => IssuesCreated + InquiriesCreated = 0

\* the same qualifying query was submitted twice and logged twice
C8_Witness ==
  /\ hpc = "responded"
  /\ insertOutcome = "ok"
  /\ Len(inquiries) = 2
  /\ inquiries[1].description = inquiries[2].description
  /\ inquiries[2].description = query

\* C9: when the insert of the gap record returns an error or throws, the
\* request still ends with the 200 response and the generated answer, with
\* knowledgeGap = false and knowledgeGapType = null.
C9_PersistFailureSwallowed ==
  (hpc = "responded" /\ insertOutcome \in {"error", "throw"}) =>
    /\ chatResponse.status = 200
    /\ chatResponse.response = "answer"
    /\ chatResponse.knowledgeGap = FALSE
    /\ chatResponse.knowledgeGapType = Null

\* an insert threw and the request was answered
C9_Witness ==
  /\ hpc = "responded"
  /\ insertOutcome = "throw"
  /\ chatResponse.status = 200

\* the classifier failed: non-2xx answer, thrown error, empty text
ClassifierFailed(o) ==
  \/ o.kind \in {"http_error", "throw"}
  \/ o.kind = "text" /\ o.text = <<>>

\* C10: the classifier yields exactly one of issue and inquiry; when it fails
\* the result is inquiry, the request goes on to its 200 response, and the
\* record, if its insert succeeds, goes to the inquiries table.
C10_ClassifierFailsSafeToInquiry ==
  /\ classifierOutcome.kind # "none" => knowledgeGapType \in {"issue", "inquiry"}
  /\ ClassifierFailed(classifierOutcome) =>
       /\ knowledgeGapType = "inquiry"
       /\ hpc \in {"insert", "respond", "responded"}
       /\ hpc = "responded" => chatResponse.status = 200
       /\ IssuesCreated = 0
       /\ insertOutcome = "ok" =>
            (InquiriesCreated = 1 /\ inquiries[Len(inquiries)].description = query)

\* the classifier failed and the query was logged as an inquiry
C10_Witness ==
  /\ hpc = "responded"
  /\ classifierOutcome.kind = "http_error"
  /\ insertOutcome = "ok"
  /\ chatResponse.knowledgeGapType = "inquiry"
  /\ InquiriesCreated = 1

\* the queries that pass the five gates as stated: trimmed length at least
\* 15, more than 3 words, no greeting, no generic help request, no reply to
\* the assistant (a bare "I have an issue" counted as such a reply)
PassesFiveGates ==
  { q \in ChatQueries :
      /\ Len(Trim(q)) >= 15
      /\ Len(SplitWords(Trim(q))) > 3
      /\ ToLowerCase(Trim(q)) \notin commonGreetings
      /\ ~IsGenericHelpRequest(Trim(q))
      /\ ~(looksLikeResponse(q) \/ isJustIssueStatement(q)) }

\* the gap block was skipped although nothing relevant was retrieved
FilteredOut == hpc = "respond" /\ insertOutcome = "none" /\ ~hasRelevantContent

\* C11: a query is eligible for gap logging iff it passes the five gates, the
\* length gate being "trimmed length at least 15": a request with nothing
\* relevant retrieved enters the gap block iff its query passes them, a query
\* of trimmed length exactly 15 included.
C11_SubstantialIffFiveGates ==
  /\ hpc = "classify" => query \in PassesFiveGates
  /\ FilteredOut => query \notin PassesFiveGates

\* the gap records of both tables
GapRecords ==
  { issues[i] : i \in 1..Len(issues) } \cup { inquiries[i] : i \in 1..Len(inquiries) }

\* C13 as stated: the title of every gap record is at most 30 characters long.
C13_Original_TitleAtMost30 ==
  \A r \in GapRecords : Len(r.title) <= 30

\* C13: the title of every gap record is at most 42 characters long: the 15
\* characters of "Knowledge Gap: " and at most 27 characters drawn from the
\* query.
C13_TitleAtMost42 ==
  \A r \in GapRecords :
    /\ Len(r.title) <= 42
    /\ SubSeq(r.title, 1, 15) = KnowledgeGapPrefix
    /\ Len(r.title) - 15 <= 27

\* a record whose title is 42 characters long
C13_Witness ==
  /\ hpc = "responded"
  /\ insertOutcome = "ok"
  /\ \E r \in GapRecords : Len(r.title) = 42 /\ Len(r.description) > 27

\* the title as stated: "Knowledge Gap: ", then the first 24 characters of the
\* query and an ellipsis when the query is longer than cutAbove characters,
\* the whole query otherwise
StatedTitle(q, cutAbove) ==
  <<"K","n","o","w","l","e","d","g","e"," ","G","a","p",":"," ">> \o
    (IF Len(q) > cutAbove THEN SubSeq(q, 1, 24) \o <<".",".",".">> ELSE q)

\* the record the request has just inserted holds the whole query as its
\* description
DescriptionIsQuery ==
  insertOutcome = "ok" =>
    /\ knowledgeGapType = "issue" => issues[Len(issues)].description = query
    /\ knowledgeGapType = "inquiry" => inquiries[Len(inquiries)].description = query

\* C14 as stated: the title is "Knowledge Gap:" followed by the first 24
\* characters of the query and an ellipsis whenever the query is longer than
\* 24 characters, by the whole query otherwise; the description is the whole
\* query.
C14_Original_TitleCutAbove24 ==
  /\ \A r \in GapRecords : r.title = StatedTitle(r.description, 24)
  /\ DescriptionIsQuery

\* C14: the title is "Knowledge Gap: " followed by the first 24 characters of
\* the query and an ellipsis whenever the query is longer than 27 characters,
\* by the whole query otherwise; the description is the whole query.
C14_TitleCutAbove27 ==
  /\ \A r \in GapRecords : r.title = StatedTitle(r.description, 27)
  /\ DescriptionIsQuery

\* a query of 27 characters was logged whole, one of 28 characters cut
C14_Witness ==
  /\ hpc = "responded"
  /\ insertOutcome = "ok"
  /\ \E r \in GapRecords : Len(r.description) = 27 /\ Len(r.title) = 42
  /\ \E r \in GapRecords : Len(r.description) = 28 /\ Len(r.title) = 42
                              /\ SubSeq(r.title, 40, 42) = <<".",".",".">>

\* C25: the orchestrator runs embed query, retrieve, decide gap-or-not,
\* classify, persist gap record, generate final answer, in this order: in a
\* request that logs a gap the record is persisted before the generation
\* call is made, so that a qualifying query is logged also when the
\* generation then fails.
C25_GapPersistedBeforeGeneration ==
  /\ (hpc = "generate" /\ ShouldLogGap(hasRelevantContent, query))
       => (classifierOutcome.kind # "none" /\ insertOutcome # "none")
  /\ hpc \in {"classify", "insert"} => response = "none"

\* C28: in every successful chat response the gap flags agree with what was
\* persisted: knowledgeGap is true iff knowledgeGapType is non-null iff a gap
\* record was inserted during the request, and knowledgeGapType is "issue"
\* exactly when the record went to the issues table and "inquiry" exactly
\* when it went to the inquiries table.
C28_GapFlagsMatchPersisted ==
  (hpc = "responded" /\ chatResponse.status = 200) =>
    /\ chatResponse.knowledgeGap <=> chatResponse.knowledgeGapType # Null
    /\ chatResponse.knowledgeGap <=> IssuesCreated + InquiriesCreated > 0
    /\ chatResponse.knowledgeGapType \in {Null, "issue", "inquiry"}
    /\ chatResponse.knowledgeGapType = "issue" <=> (IssuesCreated = 1 /\ InquiriesCreated = 0)
    /\ chatResponse.knowledgeGapType = "inquiry" <=> (InquiriesCreated = 1 /\ IssuesCreated = 0)

\* a request that logged an issue was answered with both flags set
C28_Witness ==
  /\ hpc = "responded"
  /\ chatResponse.status = 200
  /\ chatResponse.knowledgeGap
  /\ chatResponse.knowledgeGapType = "issue"
  /\ IssuesCreated = 1

(***************************************************************************)
(* The SQL classification functions of the knowledge gap migration, and    *)
(* the test SELECT that applies the three of them to a text.               *)
(***************************************************************************)
\* trim(text): leading and trailing spaces removed
RECURSIVE sql_trim(_)
sql_trim(s) ==
  IF Len(s) > 0 /\ Head(s) = " " THEN sql_trim(Tail(s))
  ELSE IF Len(s) > 0 /\ s[Len(s)] = " " THEN sql_trim(SubSeq(s, 1, Len(s) - 1))
  ELSE s

\* lower(text)
lower(s) == [i \in 1..Len(s) |-> LowerChar(s[i])]

\* position(p in s) > 0
position_found(p, s) ==
  \E i \in 1..Len(s) : i + Len(p) - 1 <= Len(s) /\ SubSeq(s, i, i + Len(p) - 1) = p

\* is_response_message: response_patterns
response_patterns ==
  { <<"n","o","n","e"," ","o","f"," ","t","h","i","s">>,
    <<"t","h","i","s"," ","d","i","d","n","'","t"," ","h","e","l","p">>,
    <<"t","h","i","s"," ","d","i","d"," ","n","o","t"," ","h","e","l","p">>,
    <<"n","o","t"," ","h","e","l","p","f","u","l">>,
    <<"c","a","n","'","t"," ","h","e","l","p">>,
    <<"c","a","n","n","o","t"," ","h","e","l","p">>,
    <<"f","o","r","w","a","r","d"," ","t","h","e"," ","i","s","s","u","e">>,
    <<"c","o","n","t","a","c","t"," ","s","u","p","p","o","r","t">>,
    <<"t","a","l","k"," ","t","o"," ","s","o","m","e","o","n","e">>,
    <<"n","o","n","e"," ","o","f"," ","t","h","e","s","e">>,
    <<"d","o","e","s","n","'","t"," ","w","o","r","k">>,
    <<"d","o","e","s"," ","n","o","t"," ","w","o","r","k">>,
    <<"n","o","t"," ","w","o","r","k","i","n","g">>,
    <<"n","o"," ","h","e","l","p">>,
    <<"u","s","e","l","e","s","s">>,
    <<"n","o","t"," ","u","s","e","f","u","l">>,
    <<"d","i","d","n","'","t"," ","a","n","s","w","e","r">>,
    <<"d","i","d"," ","n","o","t"," ","a","n","s","w","e","r">>,
    <<"w","r","o","n","g"," ","a","n","s","w","e","r">>,
    <<"i","n","c","o","r","r","e","c","t">>,
    <<"n","o","t"," ","r","i","g","h","t">> }

\* is_response_message: the openers of its two regular expressions
sql_issue_openers ==
  { <<"i"," ","h","a","v","e"," ">>,
    <<"i","'","m"," ","h","a","v","i","n","g"," ">> }

\* is_response_message
is_response_message(text_content) ==
  LET lower_content == lower(sql_trim(text_content))
  IN  \/ \E p \in response_patterns : position_found(p, lower_content)
      \/ MatchesIssueTail(AfterAnyLiteral(AfterAnyLiteral({lower_content}, sql_issue_openers),
                                          IssueNouns))

\* is_substantial_message: common_greetings
common_greetings ==
  { <<"h","i">>,
    <<"h","e","y">>,
    <<"h","e","l","l","o">>,
    <<"t","e","s","t">>,
    <<"h","o","l","a">>,
    <<"y","o">>,
    <<"s","u","p">>,
    <<"h","o","w","d","y">>,
    <<"g","r","e","e","t","i","n","g","s">>,
    <<"g","o","o","d"," ","m","o","r","n","i","n","g">>,
    <<"g","o","o","d"," ","a","f","t","e","r","n","o","o","n">>,
    <<"g","o","o","d"," ","e","v","e","n","i","n","g">>,
    <<"t","h","a","n","k","s">>,
    <<"t","h","a","n","k"," ","y","o","u">>,
    <<"h","e","l","p">>,
    <<"h","e","l","p"," ","m","e">>,
    <<"c","a","n"," ","y","o","u"," ","h","e","l","p">>,
    <<"p","l","e","a","s","e"," ","h","e","l","p">>,
    <<"i"," ","n","e","e","d"," ","h","e","l","p">>,
    <<"w","h","a","t"," ","c","a","n"," ","y","o","u"," ","d","o">>,
    <<"w","h","a","t"," ","d","o"," ","y","o","u"," ","d","o">> }

\* is_substantial_message: "length(trim(text_content)) < 15"
SqlMinLength == 15

\* is_substantial_message: "word_count <= 3"
SqlMaxShortWords == 3

\* is_substantial_message
is_substantial_message(text_content) ==
  LET lower_content == lower(sql_trim(text_content))
      word_count == Len(SplitWords(lower_content))
  IN  IF Len(sql_trim(text_content)) < SqlMinLength THEN FALSE
      ELSE IF lower_content \in common_greetings THEN FALSE
      ELSE IF word_count <= SqlMaxShortWords THEN FALSE
      ELSE IF is_response_message(text_content) THEN FALSE
      ELSE IF AfterAnyLiteral(AfterSpaces(AfterAnyLiteral({lower_content}, HelpOpeners)),
                              HelpVerbs) # {} THEN FALSE
      ELSE TRUE

\* is_text_an_issue: issue_keywords
issue_keywords ==
  { <<"e","r","r","o","r">>,
    <<"b","u","g">>,
    <<"p","r","o","b","l","e","m">>,
    <<"b","r","o","k","e","n">>,
    <<"n","o","t"," ","w","o","r","k","i","n","g">>,
    <<"f","a","i","l","s">>,
    <<"c","r","a","s","h">>,
    <<"i","s","s","u","e">>,
    <<"f","i","x">>,
    <<"w","r","o","n","g">>,
    <<"d","o","e","s","n","'","t"," ","w","o","r","k">>,
    <<"f","a","i","l","u","r","e">>,
    <<"f","a","i","l","e","d">>,
    <<"s","t","u","c","k">>,
    <<"g","l","i","t","c","h">>,
    <<"m","a","l","f","u","n","c","t","i","o","n">>,
    <<"t","r","o","u","b","l","e">>,
    <<"i","n","c","o","r","r","e","c","t">> }

\* is_text_an_issue: inquiry_keywords
inquiry_keywords ==
  { <<"h","o","w">>,
    <<"w","h","a","t">>,
    <<"w","h","e","n">>,
    <<"w","h","e","r","e">>,
    <<"w","h","y">>,
    <<"c","a","n">>,
    <<"c","o","u","l","d">>,
    <<"w","o","u","l","d">>,
    <<"s","h","o","u","l","d">>,
    <<"i","s">>,
    <<"a","r","e">>,
    <<"e","x","p","l","a","i","n">>,
    <<"t","e","l","l"," ","m","e">>,
    <<"s","h","o","w"," ","m","e">>,
    <<"h","e","l","p"," ","m","e"," ","u","n","d","e","r","s","t","a","n","d">>,
    <<"n","e","e","d"," ","t","o"," ","k","n","o","w">>,
    <<"l","o","o","k","i","n","g"," ","f","o","r">>,
    <<"s","e","a","r","c","h","i","n","g"," ","f","o","r">>,
    <<"t","r","y","i","n","g"," ","t","o"," ","f","i","n","d">> }

\* is_text_an_issue: the keywords of the array that occur in the text, one
\* point each
keyword_score(keywords, text_content) ==
  Cardinality({ k \in keywords : position_found(k, lower(text_content)) })

\* is_text_an_issue
is_text_an_issue(text_content) ==
  keyword_score(issue_keywords, text_content) > keyword_score(inquiry_keywords, text_content)

\* the texts of the test SELECT
T_LoginButtonBroken ==
  <<"T","h","e"," ","l","o","g","i","n"," ","b","u","t","t","o","n"," ","i","s"," ","b",
    "r","o","k","e","n">>

T_Hey ==
  <<"H","e","y">>

T_IHaveAnIssue ==
  <<"I"," ","h","a","v","e"," ","a","n"," ","i","s","s","u","e">>

T_IssueWithLogin ==
  <<"I"," ","h","a","v","e"," ","a","n"," ","i","s","s","u","e"," ","w","i","t","h"," ",
    "t","h","e"," ","l","o","g","i","n"," ","s","y","s","t","e","m"," ","n","o","t"," ",
    "a","c","c","e","p","t","i","n","g"," ","m","y"," ","c","r","e","d","e","n","t","i",
    "a","l","s">>

\* longest generated text, in words
MaxSqlWords == 3

\* the words of the generated texts
SqlWords ==
  { <<"h","o","w">>, <<"i","s">>, <<"b","r","o","k","e","n">>, <<"e","r","r","o","r">>,
    <<"l","o","g","i","n">> }

\* the texts the SELECT is run on: those of the migration, the queries of the
\* chat requests, and short texts over a few words
SqlTexts ==
  { T_LoginButtonBroken, Q_ResetPassword, T_Hey, T_IHaveAnIssue, T_IssueWithLogin }
    \cup FilterQueries
    \cup { JoinSpace(ws) : ws \in SeqsUpTo(SqlWords, MaxSqlWords) }

NoSqlRow ==
  [is_issue |-> FALSE, is_substantial |-> FALSE, is_response |-> FALSE,
   issue_score |-> 0, inquiry_score |-> 0]

InitSql ==
  /\ spc = "idle"
  /\ sqlText = <<>>
  /\ sqlRow = NoSqlRow

\* the test SELECT on one text; the two scores are kept next to the columns
SqlSelect ==
  /\ spc = "idle"
  /\ \E t \in SqlTexts :
       /\ sqlText' = t
       /\ sqlRow' = [is_issue |-> is_text_an_issue(t),
                     is_substantial |-> is_substantial_message(t),
                     is_response |-> is_response_message(t),
                     issue_score |-> keyword_score(issue_keywords, t),
                     inquiry_score |-> keyword_score(inquiry_keywords, t)]
  /\ spc' = "done"
  /\ UNCHANGED outsideSql

NextSql == SqlSelect

\* C12: with the keyword classifier "hi" is rejected by the gap filter; "The
\* login button is completely broken and nothing works" passes it and is an
\* issue, its issue score above its inquiry score; "How do I reset my
\* password?" passes it and is an inquiry.
C12_KeywordClassifierScenario ==
  spc = "done" =>
    /\ sqlText = Q_Hi => ~sqlRow.is_substantial
    /\ sqlText = Q_LoginBroken =>
         (sqlRow.is_substantial /\ sqlRow.is_issue
            /\ sqlRow.issue_score > sqlRow.inquiry_score)
    /\ sqlText = Q_ResetPassword => (sqlRow.is_substantial /\ ~sqlRow.is_issue)

(***************************************************************************)
(* EmbeddingService.searchSimilar, the search of the signed-in client.     *)
(***************************************************************************)
\* largest limit a caller passes
MaxLimit == 2
\* number of rows of the embeddings table the client searches
NumSearchRows == 6

\* the similarities the vector index may compute, in hundredths
SearchSimValues == {0, 40, 100}

\* searchSimilar: "threshold = 0.4"
DefaultThreshold == 40

\* the thresholds a caller passes
SearchThresholds == {0, DefaultThreshold, 100}

SearchTable == EmbeddingTable(NumSearchRows)

\* the row of an item of the rpc's data
RowOf(table, item) == CHOOSE e \in table : e.id = item.id

\* searchSimilar, from the data of the rpc on: the filter on source_type when
\* a sourceType is given, then the map to the result items
searchSimilar(data, sourceType) ==
  LET results == IF sourceType # Null
                 THEN SelectSeq(data, LAMBDA item : item.source_type = sourceType)
                 ELSE data
  IN  [i \in 1..Len(results) |->
         [id |-> results[i].id, similarity |-> results[i].similarity,
          sourceType |-> results[i].source_type]]

NoSearchCall ==
  [threshold |-> 0, limit |-> 0, projectId |-> Null, userId |-> Null, sourceType |-> Null,
   sims |-> <<>>]

InitSearch ==
  /\ qpc = "idle"
  /\ searchCall = NoSearchCall
  /\ rpcData = <<>>
  /\ searchResults = <<>>
  /\ searchOutcome = "none"

\* searchSimilar: the embedding of the query, the rpc, the filter and the map;
\* a failure of the embedding or of the rpc is thrown
SearchSimilarCall ==
  /\ qpc = "idle"
  /\ \E sims \in [1..NumSearchRows -> SearchSimValues], threshold \in SearchThresholds,
        limit \in 1..MaxLimit, projectId \in {"p1", "p2"}, userId \in {"u1", "u2"},
        sourceType \in {Null, "context", "issue"},
        outcome \in {"ok", "embedding_error", "rpc_error"} :
       /\ searchCall' = [threshold |-> threshold, limit |-> limit, projectId |-> projectId,
                         userId |-> userId, sourceType |-> sourceType, sims |-> sims]
       /\ IF outcome = "ok"
          THEN \E data \in similarity_search(SearchTable, sims, threshold, limit,
                                              projectId, userId) :
                 /\ rpcData' = data
                 /\ searchResults' = searchSimilar(data, sourceType)
                 /\ searchOutcome' = "returned"
          ELSE /\ searchOutcome' = "thrown"
               /\ UNCHANGED <<rpcData, searchResults>>
  /\ qpc' = "done"
  /\ UNCHANGED outsideSearch

NextSearch == SearchSimilarCall

(***************************************************************************)
(* Properties of the search.                                               *)
(***************************************************************************)
\* the records in the scope of the call: those of its project and user
InScope ==
  { e \in SearchTable :
      e.project_id = searchCall.projectId /\ e.user_id = searchCall.userId }

\* the qualifying records of the call: in scope, of the source type asked
\* for if one is, and above the threshold
Qualifying ==
  { e \in InScope :
      /\ searchCall.sourceType = Null \/ e.source_type = searchCall.sourceType
      /\ searchCall.sims[e.id] > searchCall.threshold }

ReturnedIds == { searchResults[i].id : i \in 1..Len(searchResults) }

\* the results come most similar first
Descending ==
  \A i, j \in 1..Len(searchResults) :
    i < j => searchResults[i].similarity >= searchResults[j].similarity

C16_ChatResultsOwnedByTenant ==
  Retrieved =>
    \A i \in 1..Len(similarContent) :
      /\ RowOf(EmbeddingRows, similarContent[i]).project_id = projectInfo.id
      /\ RowOf(EmbeddingRows, similarContent[i]).user_id = projectInfo.user_id

\* C17: with a sourceType, search returns the min(limit, m) most similar
\* records of that source type, m being the number of in-scope records of the
\* type above the threshold; records of other types take no place in the
\* result.
C17_SourceTypeTopLimit ==
  (searchOutcome = "returned" /\ searchCall.sourceType # Null) =>
    /\ Len(searchResults) = Min(searchCall.limit, Cardinality(Qualifying))
    /\ \A i \in 1..Len(searchResults) : searchResults[i].sourceType = searchCall.sourceType

\* C18: with threshold 0.0 search returns min(limit, n) results, n the number
\* of in-scope records whatever their similarity, most similar first; with
\* threshold 1.0 it returns only records of similarity 1.0.
C18_ThresholdExtremes ==
  searchOutcome = "returned" =>
    /\ (searchCall.threshold = 0 /\ searchCall.sourceType = Null) =>
         /\ Len(searchResults) = Min(searchCall.limit, Cardinality(InScope))
         /\ Descending
    /\ searchCall.threshold = 100 =>
         \A i \in 1..Len(searchResults) : searchResults[i].similarity = 100

(***************************************************************************)
(* EmbeddingService.storeChunkEmbeddings and deleteEmbeddingsBySource, as  *)
(* called by one signed-in user. A store is a loop with two awaits per     *)
(* chunk; a delete is one statement and may run while a store for another  *)
(* source is under way (callers serialize the writes of one source).       *)
(***************************************************************************)
\* most chunks a store call is given
MaxChunks == 2
\* most store calls made
MaxStoreCalls == 2
\* most store calls made where deletes run at any time
MaxRaceStoreCalls == 1

SourceIds == {"src1", "src2"}

SourceTypes == {"context", "issue"}

\* the row storeChunkEmbeddings inserts for chunk number k of a call; "call"
\* tells the rows of one call from those of another
EmbeddingRow(id, call, k, no) ==
  [id |-> id, chunkIndex |-> k, source_id |-> call.sourceId, source_type |-> call.sourceType,
   project_id |-> call.projectId, user_id |-> call.userId, call |-> no]

\* a catch block that removes the rows the call has inserted
StoreCatchRollback(table, no) == SelectSeq(table, LAMBDA e : e.call # no)

\* storeChunkEmbeddings: its catch block logs and rethrows, the table stays
StoreCatch(table, no) == table

\* a delete that looks at source_id alone
DeleteBySourceIdOnly(table, sourceId, sourceType) ==
  SelectSeq(table, LAMBDA e : e.source_id # sourceId)

\* a delete that looks at source_type alone
DeleteBySourceTypeOnly(table, sourceId, sourceType) ==
  SelectSeq(table, LAMBDA e : e.source_type # sourceType)

\* deleteEmbeddingsBySource: delete().eq('source_id', sourceId).eq('source_type', sourceType)
DeleteMatching(table, sourceId, sourceType) ==
  SelectSeq(table, LAMBDA e : ~(e.source_id = sourceId /\ e.source_type = sourceType))

NoStoreCall ==
  [chunks |-> 0, sourceId |-> Null, sourceType |-> Null, projectId |-> Null, userId |-> Null]

NoDeleteCall == [sourceId |-> Null, sourceType |-> Null]

\* The promise of an async function. It is fulfilled with the value the
\* function returns, or rejected with the Error it throws; an Error made by
\* "new Error(message)" carries its message and no value of the call.
Pending == [settled |-> "pending", message |-> "none", value |-> <<>>]

Fulfilled(value) == [settled |-> "fulfilled", message |-> "none", value |-> value]

Rejected(message) == [settled |-> "rejected", message |-> message, value |-> <<>>]

\* storeChunkEmbeddings: what its catch block throws
StoreError == "Failed to store embeddings"

InitStore ==
  /\ wpc = "idle"
  /\ embeddings = <<>>
  /\ nextId = 1
  /\ callNo = 0
  /\ storeCall = NoStoreCall
  /\ storeK = 0
  /\ storeResults = <<>>
  /\ storeOutcome = "none"
  /\ storeValue = Pending
  /\ storeUndisturbed = TRUE
  /\ deleteCall = NoDeleteCall
  /\ deleteOutcome = "none"
  /\ deleteDb = "none"
  /\ embeddingsBefore = <<>>
  /\ deleteRepeat = 0
  /\ lastOp = "none"

\* storeChunkEmbeddings is entered with these arguments: "const results = []"
StoreChunkEmbeddingsCall(n, sourceId, sourceType, projectId, userId) ==
  /\ wpc = "idle"
  /\ storeCall' = [chunks |-> n, sourceId |-> sourceId, sourceType |-> sourceType,
                   projectId |-> projectId, userId |-> userId]
  /\ callNo' = callNo + 1
  /\ storeK' = 0
  /\ storeResults' = <<>>
  /\ storeOutcome' = "running"
  /\ storeValue' = Pending
  /\ storeUndisturbed' = TRUE
  /\ wpc' = "storing"
  /\ lastOp' = "store"
  /\ UNCHANGED <<embeddings, nextId, deleteCall, deleteOutcome, deleteDb, embeddingsBefore,
                 deleteRepeat>>

\* storeChunkEmbeddings is called by the signed-in user
StoreBegin ==
  /\ callNo < MaxStoreCalls
  /\ \E n \in 0..MaxChunks, sourceId \in SourceIds, sourceType \in SourceTypes :
       StoreChunkEmbeddingsCall(n, sourceId, sourceType, "p1", "u1")
  /\ UNCHANGED outsideStore

\* the same call, where deletes run at any time
StoreBeginUnserialized ==
  /\ callNo < MaxRaceStoreCalls
  /\ \E n \in 0..MaxChunks, sourceId \in SourceIds, sourceType \in SourceTypes :
       StoreChunkEmbeddingsCall(n, sourceId, sourceType, "p1", "u1")
  /\ UNCHANGED outsideStore

\* one turn of the loop: generateEmbedding, then the insert and results.push;
\* a failure of either goes to the catch block, which throws
StoreChunk ==
  /\ wpc = "storing"
  /\ storeK < storeCall.chunks
  /\ \E outcome \in {"ok", "embedding_error", "insert_error"} :
       IF outcome = "ok"
       THEN /\ embeddings' = Append(embeddings,
                                    EmbeddingRow(nextId, storeCall, storeK + 1, callNo))
            /\ nextId' = nextId + 1
            /\ storeResults' = Append(storeResults, [id |-> nextId, chunkIndex |-> storeK + 1])
            /\ storeK' = storeK + 1
            /\ deleteRepeat' = 0
            /\ UNCHANGED <<wpc, storeOutcome, storeValue>>
       ELSE /\ embeddings' = StoreCatch(embeddings, callNo)
            /\ storeOutcome' = "thrown"
            /\ storeValue' = Rejected(StoreError)
            /\ wpc' = "idle"
            /\ UNCHANGED <<nextId, storeResults, storeK, deleteRepeat>>
  /\ lastOp' = "store"
  /\ UNCHANGED <<callNo, storeCall, storeUndisturbed, deleteCall, deleteOutcome, deleteDb,
                 embeddingsBefore>>
  /\ UNCHANGED outsideStore

\* the loop is over: "return results"
StoreReturn ==
  /\ wpc = "storing"
  /\ storeK = storeCall.chunks
  /\ storeOutcome' = "returned"
  /\ storeValue' = Fulfilled(storeResults)
  /\ wpc' = "idle"
  /\ lastOp' = "store"
  /\ UNCHANGED <<embeddings, nextId, callNo, storeCall, storeK, storeResults,
                 storeUndisturbed, deleteCall, deleteOutcome, deleteDb, embeddingsBefore,
                 deleteRepeat>>
  /\ UNCHANGED outsideStore

\* deleteEmbeddingsBySource: the delete statement; an error of the database
\* is thrown, and then nothing was deleted
DeleteEmbeddingsBySourceCall(sourceId, sourceType, db) ==
  /\ deleteCall' = [sourceId |-> sourceId, sourceType |-> sourceType]
  /\ deleteDb' = db
  /\ embeddingsBefore' = embeddings
  /\ embeddings' = IF db = "ok" THEN DeleteMatching(embeddings, sourceId, sourceType)
                                ELSE embeddings
  /\ deleteOutcome' = IF db = "error" THEN "thrown" ELSE "ok"
  /\ deleteRepeat' =
       IF db = "error" THEN 0
       ELSE IF deleteCall = [sourceId |-> sourceId, sourceType |-> sourceType]
               /\ deleteRepeat > 0
            THEN 2 ELSE 1
  /\ storeUndisturbed' =
       (storeUndisturbed
          /\ ~(db = "ok" /\ storeCall.sourceId = sourceId
                         /\ storeCall.sourceType = sourceType))
  /\ lastOp' = "delete"
  /\ UNCHANGED <<wpc, nextId, callNo, storeCall, storeK, storeResults, storeOutcome,
                 storeValue>>

\* deleteEmbeddingsBySource called by a caller that serializes the writes of
\* a source: never while a store for that source is under way
DeleteEmbeddingsBySource ==
  /\ \E sourceId \in SourceIds, sourceType \in SourceTypes, db \in {"ok", "error"} :
       /\ ~(wpc = "storing" /\ storeCall.sourceId = sourceId
                            /\ storeCall.sourceType = sourceType)
       /\ DeleteEmbeddingsBySourceCall(sourceId, sourceType, db)
  /\ UNCHANGED outsideStore

\* deleteEmbeddingsBySource called at any time, also between two awaits of a
\* store for the same source: the service holds no lock
DeleteEmbeddingsBySourceAnyTime ==
  /\ \E sourceId \in SourceIds, sourceType \in SourceTypes, db \in {"ok", "error"} :
       DeleteEmbeddingsBySourceCall(sourceId, sourceType, db)
  /\ UNCHANGED outsideStore

NextStore ==
  \/ StoreBegin
  \/ StoreChunk
  \/ StoreReturn
  \/ DeleteEmbeddingsBySource

NextRace ==
  \/ StoreBeginUnserialized
  \/ StoreChunk
  \/ StoreReturn
  \/ DeleteEmbeddingsBySourceAnyTime

(***************************************************************************)
(* Properties of the store and delete calls.                               *)
(***************************************************************************)
\* the rows of the table that a delete call is about
Matches(e, call) == e.source_id = call.sourceId /\ e.source_type = call.sourceType

\* C19: deleteBySource is idempotent. After a call that returned, no record of
\* that sourceId and sourceType remains and the records of any other sourceId
\* or sourceType are as they were; a call that finds no such record (a second
\* call, a source that never existed) changes nothing; and an error is raised
\* only when the database reports one, never because nothing matched.
C19_DeleteBySourceIdempotent ==
  lastOp = "delete" =>
    /\ deleteOutcome = "thrown" <=> deleteDb = "error"
    /\ deleteOutcome = "ok" =>
         /\ \A i \in 1..Len(embeddings) : ~Matches(embeddings[i], deleteCall)
         /\ embeddings = SelectSeq(embeddingsBefore, LAMBDA e : ~Matches(e, deleteCall))
         /\ (\A i \in 1..Len(embeddingsBefore) : ~Matches(embeddingsBefore[i], deleteCall))
              => embeddings = embeddingsBefore
         /\ deleteRepeat = 2 => embeddings = embeddingsBefore

\* a source was deleted twice in a row while records of another source or
\* source type, stored next to its own, remain
C19_Witness ==
  /\ lastOp = "delete"
  /\ deleteOutcome = "ok"
  /\ deleteRepeat = 2
  /\ Len(embeddings) > 0
  /\ nextId > Len(embeddings) + 1

\* the rows of the table inserted by store call number no
RowsOfCall(no) == SelectSeq(embeddings, LAMBDA e : e.call = no)

\* C20: during and after a store call the records it has persisted are those
\* of a prefix c1..cj of its chunks, in chunk order, j growing by one per
\* chunk; when the embedding or the insert of chunk k fails, the records of
\* c1..c(k-1) stay, none of ck..cn is written then or later, and the error is
\* thrown to the caller.
C20_StoreWritesPrefix ==
  /\ \A no \in 1..callNo :
       \A i \in 1..Len(RowsOfCall(no)) : RowsOfCall(no)[i].chunkIndex = i
  /\ storeOutcome # "none" =>
       /\ storeK <= storeCall.chunks
       /\ Len(storeResults) = storeK
       /\ storeUndisturbed =>
            /\ Len(RowsOfCall(callNo)) = storeK
            /\ \A i \in 1..storeK :
                 /\ Matches(RowsOfCall(callNo)[i], storeCall)
                 /\ RowsOfCall(callNo)[i].id = storeResults[i].id
       /\ ~storeUndisturbed => (wpc = "idle" /\ Len(RowsOfCall(callNo)) = 0)
       /\ storeOutcome = "running" <=> wpc = "storing"
       /\ storeOutcome = "thrown" => storeK < storeCall.chunks
       /\ storeOutcome = "returned" => storeK = storeCall.chunks

\* the second of two chunks failed: the call has thrown and the record of the
\* first chunk is in the table
C20_Witness ==
  /\ storeOutcome = "thrown"
  /\ storeCall.chunks = 2
  /\ storeK = 1
  /\ storeUndisturbed
  /\ Len(RowsOfCall(callNo)) = 1

\* C27: store() and deleteBySource() on one source are not serialized by the
\* service. A deleteBySource(s) may run between the inserts of a store() for
\* s; then both calls complete without error, the store returns all its
\* records, and the records that remain are those of the chunks inserted
\* after the delete: there is an interleaving in which they are a non-empty
\* strict subset of the stored chunks. A store that no delete for its source
\* ran into keeps all its records, and right after a delete, so also when the
\* caller serializes the two with the delete last, no record of s remains.
C27_UnserializedStoreAndDelete ==
  /\ storeOutcome = "returned" =>
       /\ storeValue.settled = "fulfilled"
       /\ Len(storeValue.value) = storeCall.chunks
       /\ Len(RowsOfCall(callNo)) <= storeCall.chunks
       /\ \A i \in 1..Len(RowsOfCall(callNo)) :
            /\ RowsOfCall(callNo)[i].chunkIndex
                 = storeCall.chunks - Len(RowsOfCall(callNo)) + i
            /\ RowsOfCall(callNo)[i].id
                 = storeValue.value[RowsOfCall(callNo)[i].chunkIndex].id
       /\ storeUndisturbed => Len(RowsOfCall(callNo)) = storeCall.chunks
  /\ (lastOp = "delete" /\ deleteOutcome = "ok") =>
       \A i \in 1..Len(embeddings) : ~Matches(embeddings[i], deleteCall)

\* a delete for the source of a store of two chunks ran between its two
\* inserts: both calls completed without error and the record of the second
\* chunk alone remains
C27_Witness ==
  /\ storeOutcome = "returned"
  /\ storeCall.chunks = 2
  /\ deleteOutcome = "ok"
  /\ ~storeUndisturbed
  /\ Len(RowsOfCall(callNo)) = 1
  /\ Matches(RowsOfCall(callNo)[1], deleteCall)
  /\ Len(SelectSeq(embeddings, LAMBDA e : Matches(e, deleteCall))) = 1

\* C21: when store() fails on chunk k, the caller obtains the first k-1
\* successfully stored records of that call, as a partial result, together
\* with the failure.
C21_PartialResultWithFailure ==
  storeOutcome = "thrown" =>
    /\ storeValue.settled = "rejected"
    /\ storeValue.value = storeResults

(***************************************************************************)
(* The generate-embedding edge function, EmbeddingService.generateEmbedding *)
(* and generateEmbeddings. A vector is known by the text it embeds and by  *)
(* its number of components; its numbers are the oracle's.                 *)
(***************************************************************************)
\* most texts of a generateEmbeddings call
MaxBatch == 2

\* the dimension of the embedding column, "embedding vector(768)"
EmbeddingDimension == 768

\* the texts a caller embeds; the empty one is refused by the edge function
Texts == {"", "a", "b"}

\* the lengths of the arrays text-embedding-004 may answer with
VectorLengths == {0, EmbeddingDimension - 1, EmbeddingDimension, EmbeddingDimension + 1}

\* JSON values at the place of the embedding: nothing, an array of numbers,
\* or a value that is truthy and not an array (a string, an object)
JsonAbsent == [kind |-> "absent", of |-> "", length |-> 0]

JsonOther == [kind |-> "other", of |-> "", length |-> 0]

JsonArray(text, n) == [kind |-> "array", of |-> text, length |-> n]

\* the places of the Vertex AI answer the handler looks at
PredictionPlaces ==
  {"predictions[0].embeddings.values", "predictions[0].values", "predictions[0]",
   "predictions[0].embedding"}

\* What the edge function meets: no service account key, a failed token
\* exchange, a non-2xx answer of Vertex AI, or an answer with one json value
\* at one of the places.
EmbedOutcome(kind, place, json) == [kind |-> kind, place |-> place, json |-> json]

VertexEmbedOutcomes(text) ==
  { EmbedOutcome("no_key", "none", JsonAbsent),
    EmbedOutcome("token_error", "none", JsonAbsent),
    EmbedOutcome("http_error", "none", JsonAbsent) }
  \cup { EmbedOutcome("answer", place, json) :
           place \in PredictionPlaces,
           json \in {JsonAbsent, JsonOther} \cup { JsonArray(text, n) : n \in VectorLengths } }

\* JavaScript truthiness of the json values: an array is truthy, also "[]"
Truthy(json) == json.kind # "absent"

\* generate-embedding: "let embedding = null" and the if chain that follows
ExtractEmbedding(outcome) ==
  IF outcome.place = "predictions[0].embeddings.values" /\ Truthy(outcome.json)
  THEN outcome.json
  ELSE IF outcome.place = "predictions[0].values" /\ Truthy(outcome.json)
  THEN outcome.json
  ELSE IF outcome.place = "predictions[0]" /\ outcome.json.kind = "array"
  THEN outcome.json
  ELSE IF outcome.place = "predictions[0].embedding" /\ Truthy(outcome.json)
  THEN outcome.json
  ELSE JsonAbsent

\* generate-embedding: "!embedding || !Array.isArray(embedding)" negated
ValidEmbedding(embedding) == embedding.kind = "array"

\* generate-embedding: the handler, from the request to the HTTP response
ServeGenerateEmbedding(text, outcome) ==
  IF outcome.kind = "no_key" \/ text = "" \/ outcome.kind \in {"token_error", "http_error"}
  THEN [status |-> 500, embedding |-> JsonAbsent]
  ELSE IF ValidEmbedding(ExtractEmbedding(outcome))
       THEN [status |-> 200, embedding |-> ExtractEmbedding(outcome)]
       ELSE [status |-> 500, embedding |-> JsonAbsent]

\* EmbeddingService.generateEmbedding: what every failure becomes
EmbeddingError == "Failed to generate embedding"

\* EmbeddingService.generateEmbedding, given whether fetch resolved and the
\* response it resolved with
generateEmbedding(fetched, httpAnswer) ==
  IF ~fetched \/ httpAnswer.status # 200 THEN Rejected(EmbeddingError)
  ELSE IF ~Truthy(httpAnswer.embedding) \/ httpAnswer.embedding.kind # "array"
       THEN Rejected(EmbeddingError)
       ELSE Fulfilled([of |-> httpAnswer.embedding.of,
                       length |-> httpAnswer.embedding.length])

\* EmbeddingService.generateEmbeddings: what every failure becomes
BatchError == "Failed to generate batch embeddings"

\* a Promise.all that lists the values in the order the promises settled
generateEmbeddingsInSettleOrder(promises, order) ==
  IF \E i \in 1..Len(promises) : promises[i].settled = "rejected"
  THEN Rejected(BatchError)
  ELSE IF \A i \in 1..Len(promises) : promises[i].settled = "fulfilled"
       THEN Fulfilled([j \in 1..Len(promises) |-> promises[order[j]].value])
       ELSE Pending

\* EmbeddingService.generateEmbeddings: Promise.all over the calls, which
\* rejects with the first rejection and lists the values by input position;
\* order is the order in which the calls settled
generateEmbeddings(promises, order) ==
  IF \E i \in 1..Len(promises) : promises[i].settled = "rejected"
  THEN Rejected(BatchError)
  ELSE IF \A i \in 1..Len(promises) : promises[i].settled = "fulfilled"
       THEN Fulfilled([i \in 1..Len(promises) |-> promises[i].value])
       ELSE Pending

\* what the underlying model call of one generateEmbedding call did
NotAnswered == [kind |-> "pending", length |-> 0]

ModelAnswer(fetched, text, outcome) ==
  IF ~fetched \/ outcome.kind = "no_key" \/ text = "" THEN [kind |-> "not_called", length |-> 0]
  ELSE IF outcome.kind # "answer" THEN [kind |-> "error", length |-> 0]
  ELSE IF ExtractEmbedding(outcome).kind # "array" THEN [kind |-> "not_array", length |-> 0]
  ELSE [kind |-> "array", length |-> ExtractEmbedding(outcome).length]

InitEmbed ==
  /\ batchTexts = <<>>
  /\ embedCalls = <<>>
  /\ modelAnswers = <<>>
  /\ settleOrder = <<>>
  /\ batchPromise = Pending
  /\ batchCalled = FALSE

\* generateEmbeddings(texts) is called: texts.map starts one generateEmbedding
\* call per text, and Promise.all of no promise is fulfilled at once
GenerateEmbeddingsCall ==
  /\ \A i \in 1..Len(embedCalls) : embedCalls[i].settled # "pending"
  /\ \E texts \in SeqsUpTo(Texts, MaxBatch) :
       /\ batchTexts' = texts
       /\ embedCalls' = [i \in 1..Len(texts) |-> Pending]
       /\ modelAnswers' = [i \in 1..Len(texts) |-> NotAnswered]
       /\ batchPromise' = generateEmbeddings([i \in 1..Len(texts) |-> Pending], <<>>)
  /\ settleOrder' = <<>>
  /\ batchCalled' = TRUE
  /\ UNCHANGED outsideEmbed

\* one generateEmbedding call settles: the edge function answers or the
\* fetch fails, and Promise.all takes note
GenerateEmbeddingSettle ==
  /\ \E i \in 1..Len(embedCalls), fetched \in BOOLEAN :
       /\ embedCalls[i].settled = "pending"
       /\ \E outcome \in VertexEmbedOutcomes(batchTexts[i]) :
            LET settled == generateEmbedding(fetched,
                                             ServeGenerateEmbedding(batchTexts[i], outcome))
                calls == [embedCalls EXCEPT ![i] = settled]
            IN /\ embedCalls' = calls
               /\ modelAnswers' =
                    [modelAnswers EXCEPT ![i] = ModelAnswer(fetched, batchTexts[i], outcome)]
               /\ settleOrder' = Append(settleOrder, i)
               /\ batchPromise' = generateEmbeddings(calls, Append(settleOrder, i))
  /\ UNCHANGED <<batchTexts, batchCalled>>
  /\ UNCHANGED outsideEmbed

NextEmbed ==
  \/ GenerateEmbeddingsCall
  \/ GenerateEmbeddingSettle

(***************************************************************************)
(* Properties of the embedding calls.                                      *)
(***************************************************************************)
\* C22: embedBatch over t1..tn returns exactly n vectors, the i-th one the
\* embedding of ti, whatever order the single calls complete in; when any
\* single call fails the whole batch fails and no partial list is returned.
C22_BatchOrderedAllOrNothing ==
  batchCalled =>
    /\ batchPromise.settled = "fulfilled" =>
         /\ Len(batchPromise.value) = Len(batchTexts)
         /\ \A i \in 1..Len(batchTexts) :
              /\ embedCalls[i].settled = "fulfilled"
              /\ batchPromise.value[i] = embedCalls[i].value
              /\ batchPromise.value[i].of = batchTexts[i]
    /\ (\E i \in 1..Len(batchTexts) : embedCalls[i].settled = "rejected") =>
         /\ batchPromise.settled = "rejected"
         /\ batchPromise.message = BatchError
         /\ batchPromise.value = <<>>
    /\ batchPromise.settled = "pending" =>
         \E i \in 1..Len(batchTexts) : embedCalls[i].settled = "pending"

\* two different texts were embedded, the second call settled first, and the
\* batch returned
C22_Witness ==
  /\ batchPromise.settled = "fulfilled"
  /\ Len(batchTexts) = 2
  /\ batchTexts[1] # batchTexts[2]
  /\ settleOrder = <<2, 1>>

\* C23: embed(text) fails with an embedding error whenever the model call
\* errors, returns something that is not an array, or returns a vector whose
\* length differs from the dimension 768; a vector of another length is never
\* returned to the caller as a successful embedding.
C23_EmbedRejectsWrongDimension ==
  \A i \in 1..Len(embedCalls) :
    /\ embedCalls[i].settled = "fulfilled" =>
         /\ modelAnswers[i].kind = "array"
         /\ embedCalls[i].value.length = EmbeddingDimension
    /\ (/\ embedCalls[i].settled # "pending"
        /\ \/ modelAnswers[i].kind \in {"error", "not_array"}
           \/ modelAnswers[i].kind = "array" /\ modelAnswers[i].length # EmbeddingDimension)
         => /\ embedCalls[i].settled = "rejected"
            /\ embedCalls[i].message = EmbeddingError

(***************************************************************************)
(* useSemanticProcessing.processContent: the hook state, the chunking and  *)
(* the storeChunkEmbeddings call it awaits. The chunker is known here by    *)
(* the number of chunks it returns; the store call is the one above.       *)
(***************************************************************************)
\* most processContent calls made
MaxProcessRuns == 2

\* useAuth: the signed-in user, or none
Users == {Null, "u1"}

\* useState<ProcessingState>: the initial state
InitialProcessingState ==
  [isProcessing |-> FALSE, progress |-> 0, currentStep |-> "", error |-> Null]

\* updateState: "setState(prev => ({ ...prev, ...updates }))"
updateState(prev, updates) ==
  [k \in DOMAIN prev |-> IF k \in DOMAIN updates THEN updates[k] ELSE prev[k]]

NoProcessCall == [sourceId |-> Null, sourceType |-> Null, user |-> Null]

\* processContent: the catch block, "updateState({isProcessing: false, error:
\* errorMessage}); throw error"
ProcessCatch(message) ==
  /\ state' = updateState(state, [isProcessing |-> FALSE, error |-> message])
  /\ processPromise' = Rejected(message)
  /\ ppc' = "idle"

InitProcess ==
  /\ ppc = "idle"
  /\ state = InitialProcessingState
  /\ processCall = NoProcessCall
  /\ processRuns = 0
  /\ processChunks = 0
  /\ processPromise = Pending
  /\ processedBefore = {}

\* processContent is called: without a user it throws before the try block;
\* with one it updates the state twice and calls chunkContent
ProcessContentCall ==
  /\ ppc = "idle"
  /\ wpc = "idle"
  /\ processRuns < MaxProcessRuns
  /\ \E user \in Users, sourceId \in SourceIds, sourceType \in SourceTypes :
       /\ processCall' = [sourceId |-> sourceId, sourceType |-> sourceType, user |-> user]
       /\ IF user = Null
          THEN /\ processPromise' = Rejected("User must be authenticated")
               /\ UNCHANGED <<ppc, state>>
          ELSE /\ state' =
                    updateState(
                      updateState(state, [isProcessing |-> TRUE, progress |-> 0,
                                          currentStep |-> "Analyzing content...",
                                          error |-> Null]),
                      [progress |-> 20,
                       currentStep |-> "Breaking content into semantic chunks..."])
               /\ processPromise' = Pending
               /\ ppc' = "chunking"
  /\ processRuns' = processRuns + 1
  /\ processedBefore' =
       IF processPromise.settled = "fulfilled"
       THEN processedBefore \cup {<<processCall.sourceId, processCall.sourceType>>}
       ELSE processedBefore
  /\ processChunks' = 0
  /\ UNCHANGED storeVars
  /\ UNCHANGED outsideProcess

\* chunkContent has returned n chunks: none is an error, otherwise the state
\* is updated and storeChunkEmbeddings is called with user.id
ProcessContentChunked ==
  /\ ppc = "chunking"
  /\ \E n \in 0..MaxChunks :
       /\ processChunks' = n
       /\ IF n = 0
          THEN /\ ProcessCatch("No chunks generated from content")
               /\ UNCHANGED storeVars
          ELSE /\ state' = updateState(state, [progress |-> 50,
                                               currentStep |-> "Generating embeddings..."])
               /\ StoreChunkEmbeddingsCall(n, processCall.sourceId, processCall.sourceType,
                                           "p1", processCall.user)
               /\ ppc' = "storing"
               /\ UNCHANGED processPromise
  /\ UNCHANGED <<processCall, processRuns, processedBefore>>
  /\ UNCHANGED outsideProcess

\* storeChunkEmbeddings has settled: its results are returned after a last
\* update of the state, its error goes through the catch block
ProcessContentSettle ==
  /\ ppc = "storing"
  /\ storeValue.settled # "pending"
  /\ IF storeValue.settled = "fulfilled"
     THEN /\ state' = updateState(state, [progress |-> 100,
                                          currentStep |-> "Processing complete!",
                                          isProcessing |-> FALSE])
          /\ processPromise' = Fulfilled(storeValue.value)
          /\ ppc' = "idle"
     ELSE ProcessCatch(storeValue.message)
  /\ UNCHANGED <<processCall, processRuns, processChunks, processedBefore>>
  /\ UNCHANGED storeVars
  /\ UNCHANGED outsideProcess

NextProcess ==
  \/ ProcessContentCall
  \/ ProcessContentChunked
  \/ StoreChunk
  \/ StoreReturn
  \/ ProcessContentSettle

(***************************************************************************)
(* Properties of processContent.                                           *)
(***************************************************************************)
\* a processContent call has finished
ProcessFinished == processRuns > 0 /\ ppc = "idle"

\* C24: if the embedding or the insert of any chunk fails, processContent
\* rejects with an error and never resolves with a result list; and when it
\* finishes, by success or by failure, the state has isProcessing = false and
\* an error that is non-null exactly when the run failed.
C24_IngestionFailureSurfaced ==
  ProcessFinished =>
    /\ processPromise.settled \in {"fulfilled", "rejected"}
    /\ (processChunks > 0 /\ storeOutcome = "thrown") =>
         /\ processPromise.settled = "rejected"
         /\ processPromise.value = <<>>
    /\ state.isProcessing = FALSE
    /\ state.error # Null <=> processPromise.settled = "rejected"

\* the rows of the table that belong to the source of the processContent call
RowsOfSource ==
  SelectSeq(embeddings, LAMBDA e : /\ e.source_id = processCall.sourceId
                                   /\ e.source_type = processCall.sourceType)

\* C26: the records of a source follow its lifecycle 1:1. After processContent
\* ran a second time for the same sourceId and sourceType, the store holds
\* only the records of the latest run of that source: as many as totalChunks
\* of the latest chunking, with pairwise distinct chunkIndex values.
C26_ReprocessingReplacesRecords ==
  (/\ ProcessFinished
   /\ processPromise.settled = "fulfilled"
   /\ <<processCall.sourceId, processCall.sourceType>> \in processedBefore)
    => /\ Len(RowsOfSource) = processChunks
       /\ \A i, j \in 1..Len(RowsOfSource) :
            RowsOfSource[i].chunkIndex = RowsOfSource[j].chunkIndex => i = j

(***************************************************************************)
(* useProjectChat: sendMessage, the completion of its request, and         *)
(* clearMessages. A sendMessage call runs to its fetch, and what follows   *)
(* the await runs when the request completes; nothing in the hook keeps a  *)
(* second call or clearMessages from running in between.                   *)
(***************************************************************************)
\* most sendMessage calls made
MaxSends == 2

\* the messages a user sends: nothing, a blank, "q", "r"
HookMessages == {<<>>, <<" ">>, <<"q">>, <<"r">>}

\* the project slugs sendMessage is given
HookSlugs == {"", "s1"}

\* sendMessage: the content of the message added when the request failed
ChatErrorContent == <<"s","o","r","r","y">>

\* sendMessage: data.response
ChatReplyContent == <<"o","k">>

\* a ChatMessage; request tells which sendMessage call it belongs to
ChatMessage(role, text, request) == [role |-> role, content |-> text, request |-> request]

\* sendMessage: "messages.map(msg => ({role: msg.role, content: msg.content}))"
ChatHistoryOf(list) ==
  [i \in 1..Len(list) |-> [role |-> list[i].role, content |-> list[i].content]]

InitHook ==
  /\ messages = <<>>
  /\ isLoading = FALSE
  /\ error = Null
  /\ inFlight = {}
  /\ sendCalls = 0
  /\ sentHistory = <<>>
  /\ sentQuery = <<>>
  /\ clearedInFlight = {}

\* sendMessage up to its await: nothing happens for a blank message or a
\* missing slug; otherwise the user message is added and the request, with
\* the messages before it as chatHistory, is sent
SendMessage ==
  /\ sendCalls < MaxSends
  /\ \E message \in HookMessages, projectSlug \in HookSlugs :
       IF Trim(message) = <<>> \/ projectSlug = ""
       THEN UNCHANGED <<messages, isLoading, error, inFlight, sentHistory, sentQuery>>
       ELSE /\ error' = Null
            /\ isLoading' = TRUE
            /\ messages' = Append(messages, ChatMessage("user", message, sendCalls + 1))
            /\ sentHistory' = ChatHistoryOf(messages)
            /\ sentQuery' = message
            /\ inFlight' = inFlight \cup {sendCalls + 1}
  /\ sendCalls' = sendCalls + 1
  /\ UNCHANGED clearedInFlight
  /\ UNCHANGED outsideHook

\* sendMessage after its await: the reply is added; a response that is not ok
\* or a failed fetch goes to the catch block, which sets error and adds the
\* error message; finally isLoading is reset
SendMessageSettle ==
  /\ \E request \in inFlight, ok \in BOOLEAN :
       /\ IF ok
          THEN /\ messages' = Append(messages, ChatMessage("assistant", ChatReplyContent, request))
               /\ UNCHANGED error
          ELSE /\ messages' = Append(messages, ChatMessage("assistant", ChatErrorContent, request))
               /\ error' = "Failed to get response from AI"
       /\ inFlight' = inFlight \ {request}
  /\ isLoading' = FALSE
  /\ UNCHANGED <<sendCalls, sentHistory, sentQuery, clearedInFlight>>
  /\ UNCHANGED outsideHook

\* clearMessages: "setMessages([]); setError(null)"
ClearMessages ==
  /\ messages' = <<>>
  /\ error' = Null
  /\ clearedInFlight' = clearedInFlight \cup inFlight
  /\ UNCHANGED <<isLoading, inFlight, sendCalls, sentHistory, sentQuery>>
  /\ UNCHANGED outsideHook

NextHook ==
  \/ SendMessage
  \/ SendMessageSettle
  \/ ClearMessages

(***************************************************************************)
(* Properties of the chat hook.                                            *)
(***************************************************************************)
\* C29: in every reachable state of the chat hook, under any interleaving of
\* sendMessage calls, their completions and clearMessages, every assistant
\* message of the list comes right after the user message it answers, and no
\* reply or error message of a request that was in flight when clearMessages
\* ran is added to the cleared list.
C29_TurnsPairedAndClearedStaysClear ==
  /\ \A i \in 1..Len(messages) :
       messages[i].role = "assistant" =>
         /\ i > 1
         /\ messages[i - 1].role = "user"
         /\ messages[i - 1].request = messages[i].request
  /\ \A i \in 1..Len(messages) :
       messages[i].role = "assistant" => messages[i].request \notin clearedInFlight

(***************************************************************************)
(* chat-query generateResponse: the turn list sent to Gemini. The text of  *)
(* a turn is either a message or the system prompt made of the context and *)
(* the query.                                                              *)
(***************************************************************************)
\* longest chat history of a request
MaxHistory == 2

\* the queries and the contexts of the requests
GenQueries == {"q1", "q2"}

GenContexts == {"", "c1"}

\* the messages of a chat history
HistoryMessages ==
  { [role |-> r, content |-> c] : r \in {"user", "assistant"}, c \in {"q1", "a1"} }

\* generateResponse: parts of a turn that holds a message
TextPart(text) == [prompt |-> FALSE, context |-> "", text |-> text]

\* generateResponse: systemPrompt, with "context || 'No specific context
\* available for this query.'"
SystemPrompt(context, q) ==
  [prompt |-> TRUE,
   context |-> IF context = "" THEN "No specific context available for this query."
               ELSE context,
   text |-> q]

\* generateResponse: formattedHistory
FormatHistory(chatHistory) ==
  [i \in 1..Len(chatHistory) |->
     [role |-> IF chatHistory[i].role = "assistant" THEN "model" ELSE "user",
      parts |-> TextPart(chatHistory[i].content)]]

\* generateResponse: contents, the system prompt, the history and, unless the
\* history ends with a user turn, the query
ContentsOf(q, context, chatHistory) ==
  LET formattedHistory == FormatHistory(chatHistory)
      start == <<[role |-> "user", parts |-> SystemPrompt(context, q)]>> \o formattedHistory
  IN IF Len(formattedHistory) = 0 \/ formattedHistory[Len(formattedHistory)].role # "user"
     THEN Append(start, [role |-> "user", parts |-> TextPart(q)])
     ELSE start

NoGenCall == [query |-> "", context |-> "", chatHistory |-> <<>>]

InitGenerate ==
  /\ gpc = "idle"
  /\ genCall = NoGenCall
  /\ contents = <<>>
  /\ genPromise = Pending

\* generateResponse is called and posts contents to generateContent
GenerateResponseCall ==
  /\ gpc \in {"idle", "done"}
  /\ \E q \in GenQueries, context \in GenContexts,
        chatHistory \in SeqsUpTo(HistoryMessages, MaxHistory) :
       /\ genCall' = [query |-> q, context |-> context, chatHistory |-> chatHistory]
       /\ contents' = ContentsOf(q, context, chatHistory)
  /\ genPromise' = Pending
  /\ gpc' = "sent"
  /\ UNCHANGED outsideGenerate

\* generateResponse: Vertex AI answers; a non-2xx answer and an answer
\* without text are thrown
GenerateResponseSettle ==
  /\ gpc = "sent"
  /\ \E outcome \in {"text", "http_error", "no_text"} :
       genPromise' = IF outcome = "text" THEN Fulfilled(<<"answer">>)
                     ELSE IF outcome = "http_error" THEN Rejected("Vertex AI API error")
                     ELSE Rejected("No response text from Vertex AI")
  /\ gpc' = "done"
  /\ UNCHANGED <<genCall, contents>>
  /\ UNCHANGED outsideGenerate

NextGenerate ==
  \/ GenerateResponseCall
  \/ GenerateResponseSettle

(***************************************************************************)
(* Properties of the turn list.                                            *)
(***************************************************************************)
\* C30: for every chat history of a request, the turn list sent to the
\* generation oracle starts with the system prompt (context plus query),
\* keeps the history turns in their order, and ends with a user turn whose
\* text is the current query, also when the last history entry is already a
\* user message.
C30_TurnListEndsWithQuery ==
  gpc # "idle" =>
    /\ contents[1] = [role |-> "user",
                      parts |-> SystemPrompt(genCall.context, genCall.query)]
    /\ Len(contents) > Len(genCall.chatHistory)
    /\ \A i \in 1..Len(genCall.chatHistory) :
         /\ contents[i + 1].parts = TextPart(genCall.chatHistory[i].content)
         /\ contents[i + 1].role = "model" <=> genCall.chatHistory[i].role = "assistant"
    /\ Len(contents) > 1
    /\ contents[Len(contents)] = [role |-> "user", parts |-> TextPart(genCall.query)]

(***************************************************************************)
(* Specifications.                                                         *)
(***************************************************************************)
Init ==
  /\ InitChunk
  /\ InitChat
  /\ InitSql
  /\ InitSearch
  /\ InitStore
  /\ InitEmbed
  /\ InitProcess
  /\ InitHook
  /\ InitGenerate

\* a chunkContent call, through the edge function
SpecChunk == Init /\ [][NextChunk]_vars

\* the server fallbackChunking on its own
SpecFallback == Init /\ [][NextFallback]_vars

\* the chat-query edge function
SpecChat == Init /\ [][NextChat]_vars

\* the classification test SELECT
SpecSql == Init /\ [][NextSql]_vars

\* a searchSimilar call of the client
SpecSearch == Init /\ [][NextSearch]_vars

\* the store and delete calls of the client
SpecStore == Init /\ [][NextStore]_vars

\* the embedding calls of the client
SpecEmbed == Init /\ [][NextEmbed]_vars

\* processContent calls of the hook, one after the other
SpecProcess == Init /\ [][NextProcess]_vars

\* the store and delete calls of the client, the deletes at any time
SpecRace == Init /\ [][NextRace]_vars

\* the chat hook of the client
SpecHook == Init /\ [][NextHook]_vars

\* generateResponse of the chat-query edge function
SpecGenerate == Init /\ [][NextGenerate]_vars

====
